---- MODULE Spec2Model ----
(***************************************************************************)
(* A model of the flow execution runtime of rasa-next:                     *)
(*   src/rasa/cdu/flow_stack.py                  FlowStack, FlowStackFrame *)
(*   src/rasa/core/policies/flows/flow_executor.py   the turn loop         *)
(*                                                                         *)
(* Five specifications share the module:                                   *)
(*   SpecStack   FlowStack.as_dict / FlowStack.from_dict on bounded stacks *)
(*   SpecSelect  select_next_step_id on bounded lists of links             *)
(*   SpecReset   reset_scoped_slots on bounded flows                       *)
(*   Spec        advance_flows: the turn loop over a catalog of flows      *)
(*   SpecFair    Spec with the fairness of a loop that keeps running       *)
(***************************************************************************)
EXTENDS Integers, Sequences, FiniteSets, TLC

VARIABLES
    \* ---- SpecStack: src/rasa/cdu/flow_stack.py
    fs_pc,          \* "off" | "init" | "dumped" | "loaded" | "scanned"
    fs_frames,      \* FlowStack.frames of the stack S under test
    fs_data,        \* the result of S.as_dict()
    fs_loaded,      \* the result of FlowStack.from_dict(fs_data)
    fs_user,        \* the result of S.topmost_user_frame(flows)
    fs_updated,     \* the call S.frames[of].with_updated_id(step_id), its result
    \* ---- SpecSelect: select_next_step_id
    sel_pc,         \* "off" | "init" | "selected"
    sel_step,       \* the current step (its id, kind and links)
    sel_context,    \* condition_evaluation_context
    sel_slots,      \* tracker.current_slot_values()
    sel_result,     \* what select_next_step_id returned or raised
    \* ---- SpecReset: reset_scoped_slots
    rs_pc,          \* "off" | "init" | "done"
    rs_flow,        \* current_flow
    rs_slots,       \* tracker.slots
    rs_events,      \* the events reset_scoped_slots returned
    \* ---- Spec: advance_flows and the loop of select_next_action
    pc,             \* "off" | "idle" | "loop" | "returned" | "raised"
    turn,           \* the number of the call of advance_flows
    tracker,        \* the caller's tracker: slots, events, the stack slot
    stack,          \* the DialogueStack of the running call (its frames)
    previous_stack, \* the snapshot stack.as_dict() taken before the loop
    work,           \* tracker.copy(): the loop's working tracker
    number_of_initial_events,
    number_of_steps_taken,
    prediction,     \* what advance_flows returned
    exception,      \* the exception that left advance_flows
    interpreted,    \* history: the calls of run_step in this call
    emitted,        \* history: the events run_step returned in this call
    last            \* history: what the last iteration of the loop did

varsStack == <<fs_pc, fs_frames, fs_data, fs_loaded, fs_user, fs_updated>>
varsSelect == <<sel_pc, sel_step, sel_context, sel_slots, sel_result>>
varsReset == <<rs_pc, rs_flow, rs_slots, rs_events>>
varsTurn == <<pc, turn, tracker, stack, previous_stack, work,
              number_of_initial_events, number_of_steps_taken, prediction,
              exception, interpreted, emitted, last>>
vars == <<varsStack, varsSelect, varsReset, varsTurn>>

\* ------------------------------------------------------------------------
\* Bounds of the model.
\* ------------------------------------------------------------------------
\* frames of a stack that is serialised and parsed back
MaxFrames == 2
\* outgoing links of a step handed to select_next_step_id
MaxLinks == 3
\* steps of a flow handed to reset_scoped_slots
MaxSteps == 3
\* frames below the top frame of the stack a conversation starts with
MaxBelow == 2
\* calls of advance_flows in one conversation
MaxTurns == 2

\* The ceiling of the circuit breaker.
MAX_NUMBER_OF_STEPS == 250

SeqsUpTo(S, n) == UNION {[1..k -> S] : k \in 0..n}

\* ------------------------------------------------------------------------
\* src/rasa/cdu/flow_stack.py
\* ------------------------------------------------------------------------

\* The members of the enum StackFrameType (by member name).
StackFrameType ==
    {"INTERRUPT", "REMARK", "LINK", "CORRECTION", "REGULAR", "DOCSEARCH", "INTENTLESS"}

\* StackFrameType.<member>.value: the string a member is serialised as.
StackFrameTypeValue(member) ==
    CASE member = "INTERRUPT"  -> "interrupt"
      [] member = "REMARK"     -> "remark"
      [] member = "LINK"       -> "link"
      [] member = "CORRECTION" -> "correction"
      [] member = "REGULAR"    -> "regular"
      [] member = "DOCSEARCH"  -> "docsearch"
      [] member = "INTENTLESS" -> "intentless"

\* The value data.get("frame_type") has when the key is absent.
NoneStr == "None"

\* What StackFrameType.from_str raises for an unknown string.
NotImplementedError == "NotImplementedError"

\* A from_str that forgets the REMARK branch (a plausible slip: REMARK is the
\* last branch of the chain).
StackFrameType_from_str_noRemark(typ) ==
    IF typ = NoneStr THEN "REGULAR"
    ELSE IF typ = "interrupt" THEN "INTERRUPT"
    ELSE IF typ = "link" THEN "LINK"
    ELSE IF typ = "regular" THEN "REGULAR"
    ELSE IF typ = "correction" THEN "CORRECTION"
    ELSE IF typ = "docsearch" THEN "DOCSEARCH"
    ELSE IF typ = "intentless" THEN "INTENTLESS"
    ELSE NotImplementedError

\* StackFrameType.from_str: the chain of comparisons, in the code's order.
StackFrameType_from_str(typ) ==
    IF typ = NoneStr THEN "REGULAR"
    ELSE IF typ = StackFrameTypeValue("INTERRUPT") THEN "INTERRUPT"
    ELSE IF typ = StackFrameTypeValue("LINK") THEN "LINK"
    ELSE IF typ = StackFrameTypeValue("REGULAR") THEN "REGULAR"
    ELSE IF typ = StackFrameTypeValue("CORRECTION") THEN "CORRECTION"
    ELSE IF typ = StackFrameTypeValue("DOCSEARCH") THEN "DOCSEARCH"
    ELSE IF typ = StackFrameTypeValue("INTENTLESS") THEN "INTENTLESS"
    ELSE IF typ = StackFrameTypeValue("REMARK") THEN "REMARK"
    ELSE NotImplementedError

\* Types of frames which will be filled by user defined "normal" flows.
STACK_FRAME_TYPES_WITH_USER_FLOWS == {"INTERRUPT", "REGULAR", "LINK"}

\* Optional[Dict]: None, or a dict given by its set of <<key, value>> items.
NoneContext == [is_none |-> TRUE, items |-> {}]
DictContext(items) == [is_none |-> FALSE, items |-> items]

\* The dataclass FlowStackFrame.
FlowStackFrame(flow_id, step_id, frame_type, context) ==
    [flow_id |-> flow_id, step_id |-> step_id,
     frame_type |-> frame_type, context |-> context]

\* FlowStackFrame.as_dict: the frame type is written as its string value.
FlowStackFrame_as_dict(frame) ==
    [flow_id |-> frame.flow_id,
     step_id |-> frame.step_id,
     frame_type |-> StackFrameTypeValue(frame.frame_type),
     context |-> frame.context]

\* FlowStackFrame.from_dict: the frame type is parsed back with from_str.
FlowStackFrame_from_dict(data) ==
    FlowStackFrame(data.flow_id, data.step_id,
                   StackFrameType_from_str(data.frame_type), data.context)

\* FlowStackFrame.with_updated_id: a new frame built from the flow id, the
\* given step id and the frame type; the context argument is not passed, so
\* the new frame has the dataclass default, None.
FlowStackFrame_with_updated_id(frame, step_id) ==
    FlowStackFrame(frame.flow_id, step_id, frame.frame_type, NoneContext)

\* FlowStack.as_dict: one record per frame, in the frames' order.
FlowStack_as_dict(frames) ==
    [i \in 1..Len(frames) |-> FlowStackFrame_as_dict(frames[i])]

\* FlowStack.from_dict: one frame per record, in the records' order; the
\* NotImplementedError of from_str propagates out of the comprehension.
FlowStack_from_dict(data) ==
    LET frames == [i \in 1..Len(data) |-> FlowStackFrame_from_dict(data[i])]
    IN  IF \E i \in 1..Len(data) : frames[i].frame_type = NotImplementedError
        THEN [raised |-> TRUE, frames |-> <<>>]
        ELSE [raised |-> FALSE, frames |-> frames]

\* FlowStack.is_empty
FlowStack_is_empty(frames) == Len(frames) = 0

\* FlowStack.push: append when index is None, else list.insert(index, frame).
\* The only index the callers pass is -1: insert before the last element
\* (list.insert(-1, x) on an empty list inserts at position 0).
NoIndex == 0
FlowStack_push(frames, frame, index) ==
    IF index = NoIndex THEN Append(frames, frame)
    ELSE IF Len(frames) = 0 THEN <<frame>>
    ELSE SubSeq(frames, 1, Len(frames) - 1) \o <<frame>>
         \o <<frames[Len(frames)]>>

\* FlowStack.pop: the stack without its last frame (the caller reads the
\* popped frame with FlowStack_top before).
FlowStack_pop(frames) == SubSeq(frames, 1, Len(frames) - 1)

\* FlowStack.top: the last frame (callers guard with is_empty).
FlowStack_top(frames) == frames[Len(frames)]

\* ------------------------------------------------------------------------
\* The flow graph the executor reads (rasa.shared.core.flows.flow): steps,
\* links and conditions, as far as flow_executor.py uses them.
\* ------------------------------------------------------------------------
START_STEP == "START"
END_STEP == "END"

\* ContinueFlowStep.continue_step_for_id(END_STEP): the id of the step that
\* continues with END.
CONTINUE_END_STEP == "NEXT:END"

\* Optional[Text] None for a step id, a flow name or an action name.
NoneId == "None"

\* The text of a link's condition, by what evaluating it does:
\*   slot_eq       "<key> == <value>"          reads document[key]
\*   context_eq    "context.amount == <value>" reads document["context"]
\*   eval_error    p.evaluate(document) raises
\*   render_error  Template(predicate).render(context) raises
\*   empty         no condition text (falsy link.condition)
Cond(kind, key, value) == [kind |-> kind, key |-> key, value |-> value]
NoCond == Cond("empty", "", 0)

\* StaticFlowLink, IfFlowLink, ElseFlowLink
StaticFlowLink(target) == [type |-> "static", target |-> target, condition |-> NoCond]
IfFlowLink(cond, target) == [type |-> "if", target |-> target, condition |-> cond]
ElseFlowLink(target) == [type |-> "else", target |-> target, condition |-> NoCond]

\* A FlowStep: its id, its class (kind), its next.links and the fields of the
\* step classes the executor reads.
Step(id, kind, links) ==
    [id |-> id, kind |-> kind, links |-> links,
     action |-> NoneId,                  \* ActionFlowStep.action
     collect |-> NoneId,                 \* CollectInformationFlowStep.collect
     reset_after_flow_ends |-> TRUE,     \* CollectInformationFlowStep
     ask_before_filling |-> FALSE,       \* CollectInformationFlowStep
     utter |-> NoneId,                   \* CollectInformationFlowStep.utter
     slots |-> <<>>,                     \* SetSlotsFlowStep.slots
     link |-> NoneId]                    \* LinkFlowStep.link

\* step_by_id(None), and a step id the flow does not hold.
NoStep == Step(NoneId, "none", <<>>)

\* ------------------------------------------------------------------------
\* flow_executor.py: is_condition_satisfied, select_next_step_id
\* ------------------------------------------------------------------------
\* A context mapping, by the attributes the conditions and the action
\* templates of the model read: context.amount and context.utter.
Context(amount, utter) == [amount |-> amount, utter |-> utter]
EmptyContext == Context(0, NoneId)

\* A value of the document a predicate is evaluated against: a slot's scalar
\* value, or the context mapping.
Scalar(v) == [layer |-> "slot", val |-> v]
ContextLayer(c) == [layer |-> "context", val |-> c]

\* document = {"context": context}; document.update(current_slot_values()):
\* dict.update overwrites the keys the slots share with the document.
PredicateDocument(context, slot_values) ==
    [k \in {"context"} \cup DOMAIN slot_values |->
        IF k \in DOMAIN slot_values THEN Scalar(slot_values[k])
        ELSE ContextLayer(context)]

\* Predicate(...).evaluate(document) for the condition texts of the model.
\* An undefined name, or an attribute of a scalar, compares unequal.
PredicateEvaluate(cond, document) ==
    CASE cond.kind = "slot_eq" ->
            /\ cond.key \in DOMAIN document
            /\ document[cond.key].layer = "slot"
            /\ document[cond.key].val = cond.value
      [] cond.kind = "context_eq" ->
            /\ document["context"].layer = "context"
            /\ document["context"].val.amount = cond.value
      [] OTHER -> FALSE

\* is_condition_satisfied: rendering the template and building the Predicate
\* happen before the try block; only p.evaluate is inside it.
is_condition_satisfied(predicate, context, slot_values) ==
    LET document == PredicateDocument(context, slot_values)
    IN  IF predicate.kind = "render_error"
        THEN [raised |-> TRUE, value |-> FALSE]
        ELSE IF predicate.kind = "eval_error"
        THEN [raised |-> FALSE, value |-> FALSE]
        ELSE [raised |-> FALSE, value |-> PredicateEvaluate(predicate, document)]

\* The outcome of select_next_step_id: the chosen target (NoneId for None),
\* whether an exception left it, and the indexes of the links whose condition
\* was handed to is_condition_satisfied, in the order of the calls.
Selected(target, evals) == [raised |-> FALSE, target |-> target, evals |-> evals]
SelectRaised(evals) == [raised |-> TRUE, target |-> NoneId, evals |-> evals]

\* "for link in next.links: if isinstance(link, IfFlowLink) and link.condition"
\* from link i on. found tells whether a condition was satisfied.
RECURSIVE EvaluateIfLinks(_, _, _, _, _)
EvaluateIfLinks(links, i, context, slot_values, evals) ==
    IF i > Len(links)
    THEN [found |-> FALSE, res |-> Selected(NoneId, evals)]
    ELSE IF links[i].type = "if" /\ links[i].condition.kind # "empty"
    THEN LET r == is_condition_satisfied(links[i].condition, context, slot_values)
             seen == Append(evals, i)
         IN  IF r.raised THEN [found |-> FALSE, res |-> SelectRaised(seen)]
             ELSE IF r.value
             THEN [found |-> TRUE, res |-> Selected(links[i].target, seen)]
             ELSE EvaluateIfLinks(links, i + 1, context, slot_values, seen)
    ELSE EvaluateIfLinks(links, i + 1, context, slot_values, evals)

\* "for link in next.links: if isinstance(link, ElseFlowLink): return target"
ElseLinkIndexes(links) == {i \in 1..Len(links) : links[i].type = "else"}
FirstElseLink(links) ==
    links[CHOOSE i \in ElseLinkIndexes(links) :
            \A j \in ElseLinkIndexes(links) : i <= j]

\* A select_next_step_id without the shortcut for a single static link.
select_next_step_id_noShortcut(current, context, slot_values) ==
    LET links == current.links
        ifs == EvaluateIfLinks(links, 1, context, slot_values, <<>>)
    IN  IF ifs.res.raised \/ ifs.found THEN ifs.res
        ELSE IF ElseLinkIndexes(links) # {}
        THEN Selected(FirstElseLink(links).target, ifs.res.evals)
        ELSE IF Len(links) > 0 THEN Selected(NoneId, ifs.res.evals)
        ELSE IF current.id = END_STEP THEN Selected(NoneId, ifs.res.evals)
        ELSE IF current.kind = "link" THEN Selected(END_STEP, ifs.res.evals)
        ELSE Selected(NoneId, ifs.res.evals)

\* select_next_step_id
select_next_step_id(current, context, slot_values) ==
    LET links == current.links
        ifs == EvaluateIfLinks(links, 1, context, slot_values, <<>>)
    IN  IF Len(links) = 1 /\ links[1].type = "static"
        THEN Selected(links[1].target, <<>>)
        ELSE IF ifs.res.raised \/ ifs.found THEN ifs.res
        ELSE IF ElseLinkIndexes(links) # {}
        THEN Selected(FirstElseLink(links).target, ifs.res.evals)
        ELSE IF Len(links) > 0 THEN Selected(NoneId, ifs.res.evals)
        ELSE IF current.id = END_STEP THEN Selected(NoneId, ifs.res.evals)
        ELSE IF current.kind = "link" THEN Selected(END_STEP, ifs.res.evals)
        ELSE Selected(NoneId, ifs.res.evals)

\* ------------------------------------------------------------------------
\* The conversation state (rasa.shared.core.trackers) as the executor uses
\* it: slots with a value, an initial value and has_been_set, and the list
\* of events applied so far.
\* ------------------------------------------------------------------------
NoneValue == 0

Slot(value, initial_value, has_been_set) ==
    [value |-> value, initial_value |-> initial_value,
     has_been_set |-> has_been_set]

FLOW_STACK_SLOT == "flow_stack"

\* SlotSet(key, value); the event that persists the stack is a SlotSet of the
\* stack slot whose value is the serialised stack.
SlotSet(key, value) ==
    [type |-> "slot", key |-> key, value |-> value, stack |-> <<>>]
StackUpdated(data) ==
    [type |-> "stack", key |-> FLOW_STACK_SLOT, value |-> NoneValue, stack |-> data]

\* tracker.current_slot_values()
current_slot_values(slots) == [k \in DOMAIN slots |-> slots[k].value]

\* Applying one event to the slots: a SlotSet assigns the slot's value, which
\* marks the slot as set.
ApplyEvent(slots, e) ==
    IF e.type = "slot" /\ e.key \in DOMAIN slots
    THEN [slots EXCEPT ![e.key] = Slot(e.value, @.initial_value, TRUE)]
    ELSE slots

RECURSIVE ApplyEvents(_, _)
ApplyEvents(slots, events) ==
    IF events = <<>> THEN slots
    ELSE ApplyEvents(ApplyEvent(slots, Head(events)), Tail(events))

\* tracker.update_with_events(events) on [slots, events]
update_with_events(t, events) ==
    [slots |-> ApplyEvents(t.slots, events), events |-> t.events \o events]

\* ------------------------------------------------------------------------
\* The frames of the executor's stack (rasa.dialogue_understanding.stack).
\* cls is the frame's class; the other fields are the constructor arguments
\* the executor passes or reads.
\* ------------------------------------------------------------------------
Frame(cls, flow_id, step_id, frame_type) ==
    [cls |-> cls, flow_id |-> flow_id, step_id |-> step_id,
     frame_type |-> frame_type, previous_flow_name |-> NoneId,
     collect |-> NoneId, utter |-> NoneId]

UserFlowStackFrame(flow_id, step_id, frame_type) ==
    Frame("UserFlowStackFrame", flow_id, step_id, frame_type)

CompletedPatternFlowStackFrame(previous_flow_name) ==
    [Frame("CompletedPatternFlowStackFrame", "pattern_completed", START_STEP, NoneId)
        EXCEPT !.previous_flow_name = previous_flow_name]

ContinueInterruptedPatternFlowStackFrame(previous_flow_name) ==
    [Frame("ContinueInterruptedPatternFlowStackFrame",
           "pattern_continue_interrupted", START_STEP, NoneId)
        EXCEPT !.previous_flow_name = previous_flow_name]

CollectInformationPatternFlowStackFrame(collect, utter) ==
    [Frame("CollectInformationPatternFlowStackFrame",
           "pattern_collect_information", START_STEP, NoneId)
        EXCEPT !.collect = collect, !.utter = utter]

\* A frame that is a DialogueStackFrame but no BaseFlowStackFrame.
NonFlowStackFrame == Frame("DialogueStackFrame", NoneId, NoneId, NoneId)

\* isinstance(frame, BaseFlowStackFrame)
IsBaseFlowStackFrame(frame) ==
    frame.cls \in {"UserFlowStackFrame", "CompletedPatternFlowStackFrame",
                   "ContinueInterruptedPatternFlowStackFrame",
                   "CollectInformationPatternFlowStackFrame"}

\* isinstance(frame, UserFlowStackFrame)
IsUserFlowStackFrame(frame) == frame.cls = "UserFlowStackFrame"

\* stack.current_context(): the top frame's context, empty without a top.
current_context(stk) ==
    IF FlowStack_is_empty(stk) THEN EmptyContext
    ELSE Context(0, FlowStack_top(stk).utter)

\* DialogueStack.as_dict / from_dict: a frame is written as a record that
\* names its class by a type string and its frame type by the enum's value.
FrameTypeName(cls) ==
    CASE cls = "UserFlowStackFrame" -> "flow"
      [] cls = "CompletedPatternFlowStackFrame" -> "pattern_completed"
      [] cls = "ContinueInterruptedPatternFlowStackFrame" -> "pattern_continue_interrupted"
      [] cls = "CollectInformationPatternFlowStackFrame" -> "pattern_collect_information"
      [] OTHER -> "other"

FrameClassOfTypeName(name) ==
    CASE name = "flow" -> "UserFlowStackFrame"
      [] name = "pattern_completed" -> "CompletedPatternFlowStackFrame"
      [] name = "pattern_continue_interrupted" -> "ContinueInterruptedPatternFlowStackFrame"
      [] name = "pattern_collect_information" -> "CollectInformationPatternFlowStackFrame"
      [] OTHER -> "DialogueStackFrame"

DialogueStack_as_dict(stk) ==
    [i \in 1..Len(stk) |->
        [type |-> FrameTypeName(stk[i].cls),
         flow_id |-> stk[i].flow_id,
         step_id |-> stk[i].step_id,
         frame_type |-> IF stk[i].frame_type = NoneId THEN NoneStr
                        ELSE StackFrameTypeValue(stk[i].frame_type),
         previous_flow_name |-> stk[i].previous_flow_name,
         collect |-> stk[i].collect,
         utter |-> stk[i].utter]]

DialogueStack_from_dict(data) ==
    [i \in 1..Len(data) |->
        [cls |-> FrameClassOfTypeName(data[i].type),
         flow_id |-> data[i].flow_id,
         step_id |-> data[i].step_id,
         frame_type |-> IF data[i].frame_type = NoneStr THEN NoneId
                        ELSE StackFrameType_from_str(data[i].frame_type),
         previous_flow_name |-> data[i].previous_flow_name,
         collect |-> data[i].collect,
         utter |-> data[i].utter]]

\* top_user_flow_frame(stack): the topmost UserFlowStackFrame, scanning from
\* the top downward. found is FALSE when the stack holds none.
UserFrameIndexes(stk) ==
    {i \in 1..Len(stk) : IsUserFlowStackFrame(stk[i])}
top_user_flow_frame(stk) ==
    IF UserFrameIndexes(stk) = {}
    THEN [found |-> FALSE, frame |-> NonFlowStackFrame]
    ELSE [found |-> TRUE,
          frame |-> stk[CHOOSE i \in UserFrameIndexes(stk) :
                            \A j \in UserFrameIndexes(stk) : j <= i]]

\* ------------------------------------------------------------------------
\* Flows and the catalog (rasa.shared.core.flows.flow).
\* ------------------------------------------------------------------------
Flow(id, name, steps) == [id |-> id, name |-> name, steps |-> steps]
NoFlow == Flow(NoneId, NoneId, <<>>)

\* flow.readable_name()
readable_name(flow) == flow.name

\* flow.step_by_id(step_id): the start step links to the flow's first step,
\* the END step has no links, the continue step of END links to END.
step_by_id(flow, step_id) ==
    IF step_id = NoneId THEN NoStep
    ELSE IF step_id = START_STEP
    THEN Step(START_STEP, "start",
              <<StaticFlowLink(IF flow.steps = <<>> THEN END_STEP
                               ELSE flow.steps[1].id)>>)
    ELSE IF step_id = END_STEP THEN Step(END_STEP, "end", <<>>)
    ELSE IF step_id = CONTINUE_END_STEP
    THEN Step(CONTINUE_END_STEP, "continue", <<StaticFlowLink(END_STEP)>>)
    ELSE IF \E i \in 1..Len(flow.steps) : flow.steps[i].id = step_id
    THEN flow.steps[CHOOSE i \in 1..Len(flow.steps) : flow.steps[i].id = step_id]
    ELSE NoStep

\* The step classes, with the fields each adds.
ActionFlowStep(id, action, links) ==
    [Step(id, "action", links) EXCEPT !.action = action]
CollectInformationFlowStep(id, collect, reset_after_flow_ends, ask_before_filling, links) ==
    [Step(id, "collect", links) EXCEPT
        !.collect = collect, !.utter = "utter_ask",
        !.reset_after_flow_ends = reset_after_flow_ends,
        !.ask_before_filling = ask_before_filling]
SetSlotsFlowStep(id, slots, links) ==
    [Step(id, "set_slots", links) EXCEPT !.slots = slots]
LinkFlowStep(id, link) ==
    [Step(id, "link", <<>>) EXCEPT !.link = link]
BranchFlowStep(id, links) == Step(id, "branch", links)
GenerateResponseFlowStep(id, links) == Step(id, "generate_response", links)

\* One slot of a SetSlotsFlowStep: {"key": ..., "value": ...}
KV(key, value) == [key |-> key, value |-> value]

\* ------------------------------------------------------------------------
\* flow_executor.py: the step interpreter and the pattern triggers
\* ------------------------------------------------------------------------
ACTION_LISTEN_NAME == "action_listen"
ACTION_SEND_TEXT_NAME == "action_send_text"

\* render_template_variables(step.action, {"context": context}): the one
\* template of the model, "{{context.utter}}", renders to the context's
\* utter; a text without variables renders to itself.
render_template_variables(text, context) ==
    IF text = "{{context.utter}}" THEN context.utter ELSE text

\* is_step_end_of_flow
is_step_end_of_flow(step) ==
    \/ step.id = END_STEP
    \/ step.id = CONTINUE_END_STEP

\* An advance_top_flow_on_stack that leaves the cursor where it is.
advance_top_flow_on_stack_noAdvance(updated_id, stk) == stk

\* advance_top_flow_on_stack
advance_top_flow_on_stack(updated_id, stk) ==
    IF ~FlowStack_is_empty(stk) /\ IsBaseFlowStackFrame(FlowStack_top(stk))
    THEN [stk EXCEPT ![Len(stk)].step_id = updated_id]
    ELSE stk

\* An events_from_set_slots_step that returns no event.
events_from_set_slots_step_noEvents(step) == <<>>

\* events_from_set_slots_step
events_from_set_slots_step(step) ==
    [i \in 1..Len(step.slots) |-> SlotSet(step.slots[i].key, step.slots[i].value)]

\* events_for_collect_step
events_for_collect_step(step, slots) ==
    IF /\ step.collect \in DOMAIN slots
       /\ slots[step.collect].has_been_set
       /\ step.ask_before_filling
    THEN <<SlotSet(step.collect, slots[step.collect].initial_value)>>
    ELSE <<>>

\* A trigger that pushes for every ended user flow frame, whatever its type.
trigger_pattern_continue_interrupted_anyType(current_frame, stk, flows) ==
    LET previous == top_user_flow_frame(stk)
        previous_flow ==
            IF previous.found /\ previous.frame.flow_id \in DOMAIN flows
            THEN flows[previous.frame.flow_id] ELSE NoFlow
        previous_step ==
            IF previous.found THEN step_by_id(previous_flow, previous.frame.step_id)
            ELSE NoStep
    IN  IF /\ IsUserFlowStackFrame(current_frame)
           /\ previous_step # NoStep
           /\ previous_flow # NoFlow
           /\ ~is_step_end_of_flow(previous_step)
        THEN FlowStack_push(
                stk,
                ContinueInterruptedPatternFlowStackFrame(readable_name(previous_flow)),
                NoIndex)
        ELSE stk

\* trigger_pattern_continue_interrupted: the stack after the call.
trigger_pattern_continue_interrupted(current_frame, stk, flows) ==
    LET previous == top_user_flow_frame(stk)
        previous_flow ==
            IF previous.found /\ previous.frame.flow_id \in DOMAIN flows
            THEN flows[previous.frame.flow_id] ELSE NoFlow
        previous_step ==
            IF previous.found THEN step_by_id(previous_flow, previous.frame.step_id)
            ELSE NoStep
    IN  IF /\ IsUserFlowStackFrame(current_frame)
           /\ previous_step # NoStep
           /\ previous_flow # NoFlow
           /\ current_frame.frame_type = "INTERRUPT"
           /\ ~is_step_end_of_flow(previous_step)
        THEN FlowStack_push(
                stk,
                ContinueInterruptedPatternFlowStackFrame(readable_name(previous_flow)),
                NoIndex)
        ELSE stk

\* A trigger that forgets to look whether the stack is empty.
trigger_pattern_completed_always(current_frame, stk, flows) ==
    IF ~IsUserFlowStackFrame(current_frame)
    THEN stk
    ELSE FlowStack_push(
            stk,
            CompletedPatternFlowStackFrame(
                IF current_frame.flow_id \in DOMAIN flows
                THEN readable_name(flows[current_frame.flow_id]) ELSE NoneId),
            NoIndex)

\* A trigger that forgets to look at the class of the ended frame.
trigger_pattern_completed_anyFrame(current_frame, stk, flows) ==
    IF ~FlowStack_is_empty(stk) THEN stk
    ELSE FlowStack_push(
            stk,
            CompletedPatternFlowStackFrame(
                IF current_frame.flow_id \in DOMAIN flows
                THEN readable_name(flows[current_frame.flow_id]) ELSE NoneId),
            NoIndex)

\* trigger_pattern_completed: the stack after the call.
trigger_pattern_completed(current_frame, stk, flows) ==
    IF ~FlowStack_is_empty(stk) \/ ~IsUserFlowStackFrame(current_frame)
    THEN stk
    ELSE FlowStack_push(
            stk,
            CompletedPatternFlowStackFrame(
                IF current_frame.flow_id \in DOMAIN flows
                THEN readable_name(flows[current_frame.flow_id]) ELSE NoneId),
            NoIndex)

\* _reset_slot: the event that sets the slot back to its initial value (None
\* for a slot the tracker does not hold).
reset_slot_event(slot_name, slots) ==
    SlotSet(slot_name,
            IF slot_name \in DOMAIN slots THEN slots[slot_name].initial_value
            ELSE NoneValue)

\* The first loop of reset_scoped_slots, from step i on: one reset event per
\* collect step with reset_after_flow_ends, in the order of the steps.
RECURSIVE CollectResetEvents(_, _, _)
CollectResetEvents(steps, i, slots) ==
    IF i > Len(steps) THEN <<>>
    ELSE IF steps[i].kind = "collect" /\ steps[i].reset_after_flow_ends
    THEN <<reset_slot_event(steps[i].collect, slots)>>
         \o CollectResetEvents(steps, i + 1, slots)
    ELSE CollectResetEvents(steps, i + 1, slots)

\* not_resettable_slot_names after the first loop.
NotResettableSlotNames(steps) ==
    {steps[i].collect : i \in {j \in 1..Len(steps) :
        steps[j].kind = "collect" /\ ~steps[j].reset_after_flow_ends}}

\* The keys of one set slots step, from key k on, without the names given.
RECURSIVE StepSlotKeys(_, _, _)
StepSlotKeys(step_slots, k, excluded) ==
    IF k > Len(step_slots) THEN <<>>
    ELSE IF step_slots[k].key \notin excluded
    THEN <<step_slots[k].key>> \o StepSlotKeys(step_slots, k + 1, excluded)
    ELSE StepSlotKeys(step_slots, k + 1, excluded)

\* resettable_set_slots: the keys of the set slots steps, in the order of the
\* steps, that no collect step keeps from being reset.
RECURSIVE ResettableSetSlots(_, _, _)
ResettableSetSlots(steps, i, not_resettable) ==
    IF i > Len(steps) THEN <<>>
    ELSE IF steps[i].kind = "set_slots"
    THEN StepSlotKeys(steps[i].slots, 1, not_resettable)
         \o ResettableSetSlots(steps, i + 1, not_resettable)
    ELSE ResettableSetSlots(steps, i + 1, not_resettable)

\* A reset that resets the slots of every set slots step.
reset_scoped_slots_noOptOut(current_flow, slots) ==
    LET names == ResettableSetSlots(current_flow.steps, 1, {})
    IN  CollectResetEvents(current_flow.steps, 1, slots)
        \o [n \in 1..Len(names) |-> reset_slot_event(names[n], slots)]

\* reset_scoped_slots
reset_scoped_slots(current_flow, slots) ==
    LET names == ResettableSetSlots(current_flow.steps, 1,
                                    NotResettableSlotNames(current_flow.steps))
    IN  CollectResetEvents(current_flow.steps, 1, slots)
        \o [n \in 1..Len(names) |-> reset_slot_event(names[n], slots)]

\* FlowActionPrediction(action_name, score, metadata, events)
FlowActionPrediction(action_name, score, metadata) ==
    [action_name |-> action_name, score |-> score, metadata |-> metadata,
     events |-> <<>>]
NoPrediction == FlowActionPrediction("unset", 0, NoneId)

\* The outcome of run_step: ContinueFlowWithNextStep(events),
\* PauseFlowReturnPrediction(prediction) or a raised FlowException, with the
\* stack as the step left it.
ContinueFlowWithNextStep(events, stk) ==
    [outcome |-> "continue", events |-> events, stack |-> stk,
     prediction |-> NoPrediction]
PauseFlowReturnPrediction(pred, stk) ==
    [outcome |-> "pause", events |-> <<>>, stack |-> stk,
     prediction |-> pred]
RaiseFlowException(stk) ==
    [outcome |-> "raise", events |-> <<>>, stack |-> stk,
     prediction |-> NoPrediction]

\* run_step, the EndFlowStep branch.
run_end_step(flow, stk, slots, flows) ==
    LET current_frame == FlowStack_top(stk)
        popped == FlowStack_pop(stk)
        resumed == trigger_pattern_continue_interrupted(current_frame, popped, flows)
        completed == trigger_pattern_completed(current_frame, resumed, flows)
    IN  ContinueFlowWithNextStep(reset_scoped_slots(flow, slots), completed)

\* A link step that pushes the linked flow on top of the stack.
run_link_step_onTop(step, stk) ==
    ContinueFlowWithNextStep(
        <<>>,
        FlowStack_push(stk, UserFlowStackFrame(step.link, START_STEP, "LINK"),
                       NoIndex))

\* run_step, the LinkFlowStep branch.
run_link_step(step, stk) ==
    ContinueFlowWithNextStep(
        <<>>,
        FlowStack_push(stk, UserFlowStackFrame(step.link, START_STEP, "LINK"), -1))

\* A run_step that predicts the action of an Action step without looking
\* the name up in the available actions.
run_step_predictUnknown(step, flow, stk, slots, available_actions, flows) ==
    CASE step.kind = "collect" ->
            ContinueFlowWithNextStep(
                events_for_collect_step(step, slots),
                FlowStack_push(
                    stk,
                    CollectInformationPatternFlowStackFrame(step.collect, step.utter),
                    NoIndex))
      [] step.kind = "action" ->
            IF step.action = NoneId THEN RaiseFlowException(stk)
            ELSE PauseFlowReturnPrediction(
                    FlowActionPrediction(
                        render_template_variables(step.action, current_context(stk)),
                        1, NoneId),
                    stk)
      [] step.kind = "link" -> run_link_step(step, stk)
      [] step.kind = "set_slots" ->
            ContinueFlowWithNextStep(events_from_set_slots_step(step), stk)
      [] step.kind = "branch" -> ContinueFlowWithNextStep(<<>>, stk)
      [] step.kind = "generate_response" ->
            PauseFlowReturnPrediction(
                FlowActionPrediction(ACTION_SEND_TEXT_NAME, 1, "generated"), stk)
      [] step.kind = "end" -> run_end_step(flow, stk, slots, flows)
      [] OTHER -> RaiseFlowException(stk)

\* run_step
run_step(step, flow, stk, slots, available_actions, flows) ==
    CASE step.kind = "collect" ->
            ContinueFlowWithNextStep(
                events_for_collect_step(step, slots),
                FlowStack_push(
                    stk,
                    CollectInformationPatternFlowStackFrame(step.collect, step.utter),
                    NoIndex))
      [] step.kind = "action" ->
            IF step.action = NoneId THEN RaiseFlowException(stk)
            ELSE LET action_name ==
                        render_template_variables(step.action, current_context(stk))
                 IN  IF action_name \in available_actions
                     THEN PauseFlowReturnPrediction(
                            FlowActionPrediction(action_name, 1, NoneId), stk)
                     ELSE ContinueFlowWithNextStep(<<>>, stk)
      [] step.kind = "link" -> run_link_step(step, stk)
      [] step.kind = "set_slots" ->
            ContinueFlowWithNextStep(events_from_set_slots_step(step), stk)
      [] step.kind = "branch" -> ContinueFlowWithNextStep(<<>>, stk)
      [] step.kind = "generate_response" ->
            PauseFlowReturnPrediction(
                FlowActionPrediction(ACTION_SEND_TEXT_NAME, 1, "generated"), stk)
      [] step.kind = "end" -> run_end_step(flow, stk, slots, flows)
      [] OTHER -> RaiseFlowException(stk)

\* ------------------------------------------------------------------------
\* The inputs of a turn: the catalog of flows, the domain's action names and
\* the slots of the domain.
\* ------------------------------------------------------------------------
\* domain.action_names_or_texts
AvailableActions == {"a1", "a2", "utter_ask", "utter_completed", "utter_continue"}

SlotIsTwo == Cond("slot_eq", "x", 2)

UserFlows ==
    <<  \* F = [Action(a1) -> SetSlots{x:1} -> End]
        Flow("transfer_money", "transfer money",
             <<ActionFlowStep("a1", "a1", <<StaticFlowLink("set_x")>>),
               SetSlotsFlowStep("set_x", <<KV("x", 1)>>, <<StaticFlowLink(END_STEP)>>)>>),
        \* a step whose only link targets itself
        Flow("spin", "spin",
             <<BranchFlowStep("again", <<StaticFlowLink("again")>>)>>),
        \* a branch without an else link: unroutable unless x == 2
        Flow("stuck", "stuck",
             <<BranchFlowStep("decide", <<IfFlowLink(SlotIsTwo, END_STEP)>>)>>),
        \* a flow that links to transfer_money
        Flow("handoff", "hand off",
             <<LinkFlowStep("to_transfer", "transfer_money")>>),
        \* a slot written and then tested in the same turn
        Flow("route", "route",
             <<SetSlotsFlowStep("write", <<KV("x", 2)>>, <<StaticFlowLink("test")>>),
               BranchFlowStep("test", <<IfFlowLink(SlotIsTwo, "yes"), ElseFlowLink("no")>>),
               ActionFlowStep("yes", "a1", <<StaticFlowLink(END_STEP)>>),
               ActionFlowStep("no", "a2", <<StaticFlowLink(END_STEP)>>)>>),
        \* a collect step that opts out of the reset, and a set slots step
        Flow("ask", "ask",
             <<CollectInformationFlowStep("collect_x", "x", FALSE, TRUE,
                                          <<StaticFlowLink("fill")>>),
               SetSlotsFlowStep("fill", <<KV("x", 1), KV("y", 1)>>,
                                <<StaticFlowLink(END_STEP)>>)>>),
        \* an action the domain does not know, then a generated response
        Flow("skip", "skip",
             <<ActionFlowStep("unknown", "not_in_domain", <<StaticFlowLink("say")>>),
               GenerateResponseFlowStep("say", <<StaticFlowLink(END_STEP)>>)>>),
        \* an action step without an action, and a link to a step run_step
        \* has no branch for (the start step)
        Flow("broken", "broken",
             <<BranchFlowStep("pick", <<IfFlowLink(SlotIsTwo, "nameless"),
                                        ElseFlowLink(START_STEP)>>),
               ActionFlowStep("nameless", NoneId, <<StaticFlowLink(END_STEP)>>)>>),
        \* an action step and a branch that route to each other
        Flow("cycle", "cycle",
             <<ActionFlowStep("act", "a2", <<StaticFlowLink("hop")>>),
               BranchFlowStep("hop", <<StaticFlowLink("act")>>)>>),
        \* a branch without an else link whose one condition cannot be
        \* rendered
        Flow("unrendered", "unrendered",
             <<BranchFlowStep("render", <<IfFlowLink(Cond("render_error", "", 0),
                                                     END_STEP)>>)>>),
        \* a condition whose template cannot be rendered
        Flow("garbled", "garbled",
             <<BranchFlowStep("render", <<IfFlowLink(Cond("render_error", "", 0), END_STEP),
                                          ElseFlowLink(END_STEP)>>)>>)
    >>

PatternFlows ==
    <<  Flow("pattern_completed", "pattern completed",
             <<ActionFlowStep("say", "utter_completed", <<StaticFlowLink(END_STEP)>>)>>),
        Flow("pattern_continue_interrupted", "pattern continue interrupted",
             <<ActionFlowStep("say", "utter_continue", <<StaticFlowLink(END_STEP)>>)>>),
        Flow("pattern_collect_information", "pattern collect information",
             <<ActionFlowStep("ask", "{{context.utter}}", <<StaticFlowLink(END_STEP)>>)>>)
    >>

\* The FlowsList, keyed by flow id.
AllFlows == UserFlows \o PatternFlows
Flows ==
    [id \in {AllFlows[i].id : i \in 1..Len(AllFlows)} |->
        AllFlows[CHOOSE i \in 1..Len(AllFlows) : AllFlows[i].id = id]]

\* flows.flow_by_id
flow_by_id(flows, flow_id) ==
    IF flow_id \in DOMAIN flows THEN flows[flow_id] ELSE NoFlow

\* The slots of the domain: every slot starts at its initial value, None.
DomainSlots == {"x", "y"}
UnsetSlots == [s \in DomainSlots |-> Slot(NoneValue, NoneValue, FALSE)]

\* The top frame of the stack a conversation brings to a turn.
TopFrames ==
    {UserFlowStackFrame("transfer_money", START_STEP, "REGULAR"),
     UserFlowStackFrame("transfer_money", START_STEP, "INTERRUPT"),
     UserFlowStackFrame("spin", START_STEP, "REGULAR"),
     UserFlowStackFrame("spin", "again", "REGULAR"),
     UserFlowStackFrame("stuck", START_STEP, "REGULAR"),
     UserFlowStackFrame("handoff", START_STEP, "REGULAR"),
     UserFlowStackFrame("handoff", START_STEP, "INTERRUPT"),
     UserFlowStackFrame("route", START_STEP, "REGULAR"),
     UserFlowStackFrame("ask", START_STEP, "INTERRUPT"),
     UserFlowStackFrame("skip", START_STEP, "REGULAR"),
     UserFlowStackFrame("broken", START_STEP, "REGULAR"),
     UserFlowStackFrame("garbled", START_STEP, "LINK"),
     UserFlowStackFrame("cycle", "act", "REGULAR"),
     UserFlowStackFrame("unrendered", "render", "REGULAR"),
     NonFlowStackFrame}

\* The frames below it: interrupted flows, a flow at its last step, frames
\* of other policies and a pattern frame.
BelowFrames ==
    {UserFlowStackFrame("transfer_money", "a1", "REGULAR"),
     UserFlowStackFrame("transfer_money", CONTINUE_END_STEP, "REGULAR"),
     UserFlowStackFrame("skip", END_STEP, "LINK"),
     CollectInformationPatternFlowStackFrame("x", "utter_ask"),
     NonFlowStackFrame}

InitialStacks ==
    {<<>>} \cup
    {below \o <<top>> : below \in SeqsUpTo(BelowFrames, MaxBelow), top \in TopFrames}

\* The conversation's slots before the first turn: x unset, or set to 2 by
\* an earlier event.
InitialTrackers ==
    {[slots |-> UnsetSlots, events |-> <<>>],
     update_with_events([slots |-> UnsetSlots, events |-> <<>>], <<SlotSet("x", 2)>>)}

\* ------------------------------------------------------------------------
\* flow_executor.py: advance_flows and the loop of select_next_action
\* ------------------------------------------------------------------------
NoException == "none"
NoLast == [op |-> "none", frame |-> NonFlowStackFrame, before |-> <<>>]

InitTurn ==
    /\ pc = "idle"
    /\ turn = 1
    /\ \E t \in InitialTrackers, s \in InitialStacks :
          tracker = [slots |-> t.slots, events |-> t.events,
                     flow_stack |-> DialogueStack_as_dict(s)]
    /\ stack = <<>>
    /\ previous_stack = <<>>
    /\ work = [slots |-> UnsetSlots, events |-> <<>>]
    /\ number_of_initial_events = 0
    /\ number_of_steps_taken = 0
    /\ prediction = NoPrediction
    /\ exception = NoException
    /\ interpreted = 0
    /\ emitted = <<>>
    /\ last = NoLast

\* "if number_of_steps_taken > MAX_NUMBER_OF_STEPS" with a >= for the >
CircuitBreakerTripped_offByOne(n) == n >= MAX_NUMBER_OF_STEPS

\* "if number_of_steps_taken > MAX_NUMBER_OF_STEPS" with a ceiling 50 higher
CircuitBreakerTripped_late(n) == n > MAX_NUMBER_OF_STEPS + 50

\* "if number_of_steps_taken > MAX_NUMBER_OF_STEPS"
CircuitBreakerTripped(n) == n > MAX_NUMBER_OF_STEPS

\* An advance_flows that answers an empty stack with action_listen.
AdvanceFlowsNothingToDo_listen ==
    /\ pc = "idle"
    /\ FlowStack_is_empty(DialogueStack_from_dict(tracker.flow_stack))
    /\ pc' = "returned"
    /\ prediction' = FlowActionPrediction(ACTION_LISTEN_NAME, 1, NoneId)
    /\ UNCHANGED <<turn, tracker, stack, previous_stack, work,
                   number_of_initial_events, number_of_steps_taken, exception,
                   interpreted, emitted, last>>
    /\ UNCHANGED <<varsStack, varsSelect, varsReset>>

\* advance_flows with an empty stack: return FlowActionPrediction(None, 0.0)
AdvanceFlowsNothingToDo ==
    /\ pc = "idle"
    /\ FlowStack_is_empty(DialogueStack_from_dict(tracker.flow_stack))
    /\ pc' = "returned"
    /\ prediction' = FlowActionPrediction(NoneId, 0, NoneId)
    /\ UNCHANGED <<turn, tracker, stack, previous_stack, work,
                   number_of_initial_events, number_of_steps_taken, exception,
                   interpreted, emitted, last>>
    /\ UNCHANGED <<varsStack, varsSelect, varsReset>>

\* advance_flows up to the while loop of select_next_action: the stack is
\* rebuilt from the tracker and snapshotted, the tracker is copied.
AdvanceFlowsBegin ==
    /\ pc = "idle"
    /\ ~FlowStack_is_empty(DialogueStack_from_dict(tracker.flow_stack))
    /\ stack' = DialogueStack_from_dict(tracker.flow_stack)
    /\ previous_stack' = DialogueStack_as_dict(stack')
    /\ work' = [slots |-> tracker.slots, events |-> tracker.events]
    /\ number_of_initial_events' = Len(tracker.events)
    /\ number_of_steps_taken' = 0
    /\ interpreted' = 0
    /\ emitted' = <<>>
    /\ pc' = "loop"
    /\ UNCHANGED <<turn, tracker, prediction, exception, last>>
    /\ UNCHANGED <<varsStack, varsSelect, varsReset>>

\* The values one iteration of the while loop computes.
ActiveFrame == FlowStack_top(stack)
TopIsFlowFrame ==
    ~FlowStack_is_empty(stack) /\ IsBaseFlowStackFrame(ActiveFrame)
\* current_flow = active_frame.flow(flows)
CurrentFlow == flow_by_id(Flows, ActiveFrame.flow_id)
\* A select_next_step that reads the slots of the caller's tracker, not of
\* the copy the loop updates.
SelectNext_callerState(flow) ==
    select_next_step_id(step_by_id(flow, ActiveFrame.step_id),
                        current_context(stack), current_slot_values(tracker.slots))

\* select_next_step: select_next_step_id(current_step, stack.current_context(),
\* tracker) for the step the top frame's cursor is on.
SelectNext(flow) ==
    select_next_step_id(step_by_id(flow, ActiveFrame.step_id),
                        current_context(stack), current_slot_values(work.slots))

\* The iteration passes the counter check.
PassesCounter ==
    /\ pc = "loop"
    /\ ~CircuitBreakerTripped(number_of_steps_taken + 1)
    /\ number_of_steps_taken' = number_of_steps_taken + 1

\* A return that appends the stack event whether the stack changed or not.
ReturnPrediction_alwaysPersist(p, final_stack, final_work) ==
    LET gathered_events ==
            SubSeq(final_work.events, number_of_initial_events + 1,
                   Len(final_work.events))
    IN  /\ prediction' =
              [p EXCEPT !.events =
                  Append(gathered_events,
                         StackUpdated(DialogueStack_as_dict(final_stack)))]
        /\ stack' = final_stack
        /\ work' = final_work
        /\ pc' = "returned"

\* A return that hands back every event of the working tracker, those from
\* before the call included.
ReturnPrediction_allEvents(p, final_stack, final_work) ==
    LET gathered_events == final_work.events
    IN  /\ prediction' =
              [p EXCEPT !.events =
                  IF previous_stack # DialogueStack_as_dict(final_stack)
                  THEN Append(gathered_events,
                              StackUpdated(DialogueStack_as_dict(final_stack)))
                  ELSE gathered_events]
        /\ stack' = final_stack
        /\ work' = final_work
        /\ pc' = "returned"

\* The end of select_next_action and of advance_flows once the loop stops
\* with a PauseFlowReturnPrediction: the prediction gets the events gathered
\* since the loop began, and the event that persists the stack when the
\* stack's serialised form differs from the snapshot.
ReturnPrediction(p, final_stack, final_work) ==
    LET gathered_events ==
            SubSeq(final_work.events, number_of_initial_events + 1,
                   Len(final_work.events))
    IN  /\ prediction' =
              [p EXCEPT !.events =
                  IF previous_stack # DialogueStack_as_dict(final_stack)
                  THEN Append(gathered_events,
                              StackUpdated(DialogueStack_as_dict(final_stack)))
                  ELSE gathered_events]
        /\ stack' = final_stack
        /\ work' = final_work
        /\ pc' = "returned"

\* A circuit breaker on a stack that shares its frames with the tracker's
\* slot: the frames the loop changed are the caller's.
CircuitBreakerTrips_aliased ==
    /\ pc = "loop"
    /\ CircuitBreakerTripped(number_of_steps_taken + 1)
    /\ number_of_steps_taken' = number_of_steps_taken + 1
    /\ pc' = "raised"
    /\ exception' = "FlowCircuitBreakerTrippedException"
    /\ last' = [op |-> "breaker", frame |-> NonFlowStackFrame, before |-> stack]
    /\ tracker' = [tracker EXCEPT !.flow_stack = DialogueStack_as_dict(stack)]
    /\ UNCHANGED <<turn, stack, previous_stack, work,
                   number_of_initial_events, prediction, interpreted, emitted>>
    /\ UNCHANGED <<varsStack, varsSelect, varsReset>>

\* "raise FlowCircuitBreakerTrippedException(stack, number_of_steps_taken)"
CircuitBreakerTrips ==
    /\ pc = "loop"
    /\ CircuitBreakerTripped(number_of_steps_taken + 1)
    /\ number_of_steps_taken' = number_of_steps_taken + 1
    /\ pc' = "raised"
    /\ exception' = "FlowCircuitBreakerTrippedException"
    /\ last' = [op |-> "breaker", frame |-> NonFlowStackFrame, before |-> stack]
    /\ UNCHANGED <<turn, tracker, stack, previous_stack, work,
                   number_of_initial_events, prediction, interpreted, emitted>>
    /\ UNCHANGED <<varsStack, varsSelect, varsReset>>

\* The top of the stack is no flow frame: predict action_listen.
PredictListen ==
    /\ PassesCounter
    /\ ~TopIsFlowFrame
    /\ ReturnPrediction(FlowActionPrediction(ACTION_LISTEN_NAME, 1, NoneId),
                        stack, work)
    /\ last' = [op |-> "listen", frame |-> NonFlowStackFrame, before |-> stack]
    /\ UNCHANGED <<turn, tracker, previous_stack, number_of_initial_events,
                   exception, interpreted, emitted>>
    /\ UNCHANGED <<varsStack, varsSelect, varsReset>>

\* Rendering a condition's template raised: the exception leaves
\* select_next_step_id, the loop and advance_flows.
SelectionRaises ==
    /\ PassesCounter
    /\ TopIsFlowFrame
    /\ \E flow \in {CurrentFlow} : \E sel \in {SelectNext(flow)} : sel.raised
    /\ pc' = "raised"
    /\ exception' = "TemplateError"
    /\ last' = [op |-> "select_raised", frame |-> ActiveFrame, before |-> stack]
    /\ UNCHANGED <<turn, tracker, stack, previous_stack, work,
                   number_of_initial_events, prediction, interpreted, emitted>>
    /\ UNCHANGED <<varsStack, varsSelect, varsReset>>

\* "if not current_step: continue"
NoNextStep ==
    /\ PassesCounter
    /\ TopIsFlowFrame
    /\ \E flow \in {CurrentFlow} : \E sel \in {SelectNext(flow)} :
          /\ ~sel.raised
          /\ step_by_id(flow, sel.target) = NoStep
    /\ last' = [op |-> "no_next", frame |-> ActiveFrame, before |-> stack]
    /\ UNCHANGED <<pc, turn, tracker, stack, previous_stack, work,
                   number_of_initial_events, prediction, exception, interpreted,
                   emitted>>
    /\ UNCHANGED <<varsStack, varsSelect, varsReset>>

\* What the loop does with the result r of run_step.
ApplyStepResult(r) ==
    CASE r.outcome = "continue" ->
            /\ emitted' = emitted \o r.events
            /\ stack' = r.stack
            /\ work' = update_with_events(work, r.events)
            /\ UNCHANGED <<pc, prediction, exception>>
      [] r.outcome = "pause" ->
            /\ ReturnPrediction(r.prediction, r.stack,
                                update_with_events(work, r.events))
            /\ UNCHANGED <<exception, emitted>>
      [] OTHER ->
            /\ UNCHANGED emitted
            /\ stack' = r.stack
            /\ pc' = "raised"
            /\ exception' = "FlowException"
            /\ UNCHANGED <<work, prediction>>

\* One iteration that finds a next step of the given class: select_next_step,
\* advance_top_flow_on_stack, run_step and tracker.update_with_events.
Interpret(kind) ==
    /\ PassesCounter
    /\ TopIsFlowFrame
    /\ \E flow \in {CurrentFlow} : \E sel \in {SelectNext(flow)} :
          /\ ~sel.raised
          /\ \E step \in {step_by_id(flow, sel.target)} :
                /\ step # NoStep
                /\ step.kind = kind
                /\ \E advanced \in {advance_top_flow_on_stack(step.id, stack)} :
                      /\ last' = [op |-> kind, frame |-> FlowStack_top(advanced),
                                  before |-> stack]
                      /\ \E r \in {run_step(step, flow, advanced, work.slots,
                                            AvailableActions, Flows)} :
                            ApplyStepResult(r)
    /\ interpreted' = interpreted + 1
    /\ UNCHANGED <<turn, tracker, previous_stack, number_of_initial_events>>
    /\ UNCHANGED <<varsStack, varsSelect, varsReset>>

RunCollect == Interpret("collect")
RunAction == Interpret("action")
RunLink == Interpret("link")
RunSetSlots == Interpret("set_slots")
RunBranch == Interpret("branch")
RunGenerateResponse == Interpret("generate_response")
RunEnd == Interpret("end")
\* a step run_step has no branch for (the start step)
RunUnknownStep == Interpret("start")

\* The caller runs the predicted action and applies the prediction's events
\* to the conversation, then asks for the next prediction.
ActionExecuted ==
    /\ pc = "returned"
    /\ turn < MaxTurns
    /\ prediction.action_name \notin {NoneId, ACTION_LISTEN_NAME}
    /\ LET stack_events ==
               SelectSeq(prediction.events, LAMBDA e : e.type = "stack")
           applied == update_with_events(
                         [slots |-> tracker.slots, events |-> tracker.events],
                         prediction.events)
       IN  tracker' = [slots |-> applied.slots, events |-> applied.events,
                       flow_stack |->
                           IF stack_events = <<>> THEN tracker.flow_stack
                           ELSE stack_events[Len(stack_events)].stack]
    /\ turn' = turn + 1
    /\ pc' = "idle"
    /\ stack' = <<>>
    /\ previous_stack' = <<>>
    /\ work' = [slots |-> UnsetSlots, events |-> <<>>]
    /\ number_of_initial_events' = 0
    /\ number_of_steps_taken' = 0
    /\ prediction' = NoPrediction
    /\ interpreted' = 0
    /\ emitted' = <<>>
    /\ last' = NoLast
    /\ UNCHANGED exception
    /\ UNCHANGED <<varsStack, varsSelect, varsReset>>

NextTurn ==
    \/ AdvanceFlowsNothingToDo
    \/ AdvanceFlowsBegin
    \/ CircuitBreakerTrips
    \/ PredictListen
    \/ SelectionRaises
    \/ NoNextStep
    \/ RunCollect
    \/ RunAction
    \/ RunLink
    \/ RunSetSlots
    \/ RunBranch
    \/ RunGenerateResponse
    \/ RunEnd
    \/ RunUnknownStep
    \/ ActionExecuted

\* ------------------------------------------------------------------------
\* SpecStack: as_dict then from_dict, on every stack within the bounds.
\* ------------------------------------------------------------------------
\* FlowStack.topmost_user_frame returns a pair (step, flow); (None, None) is
\* the pair of NoStep and NoFlow.
StepAndFlow(step, flow) == [step |-> step, flow |-> flow]

\* "for frame in reversed(self.frames)": from frame i down to the bottom, the
\* first frame whose frame_type is in the given set.
RECURSIVE ScanFrames(_, _, _, _)
ScanFrames(frames, i, flows, types) ==
    IF i = 0 THEN StepAndFlow(NoStep, NoFlow)
    ELSE IF frames[i].frame_type \in types
    THEN LET flow == flow_by_id(flows, frames[i].flow_id)
         IN  StepAndFlow(step_by_id(flow, frames[i].step_id), flow)
    ELSE ScanFrames(frames, i - 1, flows, types)

\* A topmost_user_frame that takes remark frames for user frames too.
FlowStack_topmost_user_frame_withRemark(frames, flows) ==
    ScanFrames(frames, Len(frames), flows,
               STACK_FRAME_TYPES_WITH_USER_FLOWS \cup {"REMARK"})

\* FlowStack.topmost_user_frame
FlowStack_topmost_user_frame(frames, flows) ==
    ScanFrames(frames, Len(frames), flows, STACK_FRAME_TYPES_WITH_USER_FLOWS)

StackFlowIds == {"transfer_money", "check_balance"}
\* The catalog the stacks under test are read against: one flow per flow id.
StackFlows ==
    [id \in StackFlowIds |->
        Flow(id, id, <<ActionFlowStep("a1", "a1", <<StaticFlowLink(END_STEP)>>)>>)]
StackStepIds == {"START"}
\* The step ids with_updated_id is called with.
UpdatedStepIds == {"START", "a1"}
\* No with_updated_id call made yet.
NoUpdate ==
    [of |-> NoIndex, step_id |-> NoneId,
     frame |-> FlowStackFrame(NoneId, NoneId, "REGULAR", NoneContext)]
StackContexts == {NoneContext, DictContext({}), DictContext({<<"amount", 1>>})}

StackInputFrames ==
    {FlowStackFrame(f, s, t, c) :
        f \in StackFlowIds, s \in StackStepIds, t \in StackFrameType,
        c \in StackContexts}

InitStack ==
    /\ fs_pc = "init"
    /\ fs_frames \in SeqsUpTo(StackInputFrames, MaxFrames)
    /\ fs_data = <<>>
    /\ fs_loaded = [raised |-> FALSE, frames |-> <<>>]
    /\ fs_user = StepAndFlow(NoStep, NoFlow)
    /\ fs_updated = NoUpdate

\* data = S.as_dict()
AsDict ==
    /\ fs_pc = "init"
    /\ fs_data' = FlowStack_as_dict(fs_frames)
    /\ fs_pc' = "dumped"
    /\ UNCHANGED <<fs_frames, fs_loaded, fs_user, fs_updated>>
    /\ UNCHANGED <<varsSelect, varsReset, varsTurn>>

\* FlowStack.from_dict(data)
FromDict ==
    /\ fs_pc = "dumped"
    /\ fs_loaded' = FlowStack_from_dict(fs_data)
    /\ fs_pc' = "loaded"
    /\ UNCHANGED <<fs_frames, fs_data, fs_user, fs_updated>>
    /\ UNCHANGED <<varsSelect, varsReset, varsTurn>>

\* step, flow = S.topmost_user_frame(flows)
TopmostUserFrame ==
    /\ fs_pc = "init"
    /\ fs_user' = FlowStack_topmost_user_frame(fs_frames, StackFlows)
    /\ fs_pc' = "scanned"
    /\ UNCHANGED <<fs_frames, fs_data, fs_loaded, fs_updated>>
    /\ UNCHANGED <<varsSelect, varsReset, varsTurn>>

\* updated = S.frames[i].with_updated_id(step_id); the frame the method is
\* called on is only read.
WithUpdatedId ==
    /\ fs_pc = "init"
    /\ \E i \in 1..Len(fs_frames), step_id \in UpdatedStepIds :
            fs_updated' =
                [of |-> i, step_id |-> step_id,
                 frame |-> FlowStackFrame_with_updated_id(fs_frames[i], step_id)]
    /\ fs_pc' = "updated"
    /\ UNCHANGED <<fs_frames, fs_data, fs_loaded, fs_user>>
    /\ UNCHANGED <<varsSelect, varsReset, varsTurn>>

NextStack ==
    \/ AsDict
    \/ FromDict
    \/ TopmostUserFrame
    \/ WithUpdatedId


\* ------------------------------------------------------------------------
\* SpecSelect: select_next_step_id on every list of links within the bounds.
\* ------------------------------------------------------------------------
\* Link i of a step under test targets the step "t<i>": the targets of a
\* step's links are pairwise different, so the result names the link.
SelectTargets == <<"t1", "t2", "t3", "t4", "t5", "t6">>

SelectConds ==
    {Cond("slot_eq", "x", 1), Cond("slot_eq", "context", 1),
     Cond("context_eq", "context", 1), Cond("eval_error", "", 0),
     Cond("render_error", "", 0), NoCond}

\* A link without its target: its type and its condition.
SelectLinkShapes ==
    {[type |-> "static", condition |-> NoCond],
     [type |-> "else", condition |-> NoCond]}
    \cup {[type |-> "if", condition |-> c] : c \in SelectConds}

SelectLinks(shapes) ==
    [i \in 1..Len(shapes) |->
        [type |-> shapes[i].type, target |-> SelectTargets[i],
         condition |-> shapes[i].condition]]

SelectSlotValues ==
    [{"x"} -> {0, 1}] \cup [{"x", "context"} -> {0, 1}]

InitSelect ==
    /\ sel_pc = "init"
    /\ \E shapes \in SeqsUpTo(SelectLinkShapes, MaxLinks),
          kind \in {"branch", "link", "end"} :
            /\ kind = "end" => shapes = <<>>
            /\ sel_step = Step(IF kind = "end" THEN END_STEP ELSE "s", kind,
                               SelectLinks(shapes))
    /\ sel_context \in {Context(0, NoneId), Context(1, NoneId)}
    /\ sel_slots \in SelectSlotValues
    /\ sel_result = Selected(NoneId, <<>>)

\* next_id = select_next_step_id(current_step, context, tracker)
SelectNextStepId ==
    /\ sel_pc = "init"
    /\ sel_result' = select_next_step_id(sel_step, sel_context, sel_slots)
    /\ sel_pc' = "selected"
    /\ UNCHANGED <<sel_step, sel_context, sel_slots>>
    /\ UNCHANGED <<varsStack, varsReset, varsTurn>>



\* ------------------------------------------------------------------------
\* SpecReset: reset_scoped_slots on every flow within the bounds.
\* ------------------------------------------------------------------------
ResetStepShapes ==
    {CollectInformationFlowStep("", "x", FALSE, FALSE, <<>>),
     CollectInformationFlowStep("", "x", TRUE, FALSE, <<>>),
     CollectInformationFlowStep("", "y", FALSE, FALSE, <<>>),
     SetSlotsFlowStep("", <<KV("x", 1)>>, <<>>),
     SetSlotsFlowStep("", <<KV("y", 1), KV("x", 2)>>, <<>>),
     SetSlotsFlowStep("", <<KV("z", 1)>>, <<>>),
     ActionFlowStep("", "a1", <<>>)}

ResetStepIds == <<"s1", "s2", "s3", "s4", "s5", "s6">>

ResetSlots ==
    {UnsetSlots,
     [UnsetSlots EXCEPT !["x"] = Slot(2, 1, TRUE)]}

InitReset ==
    /\ rs_pc = "init"
    /\ \E shapes \in SeqsUpTo(ResetStepShapes, MaxSteps) :
          rs_flow = Flow("flow", "flow",
                         [i \in 1..Len(shapes) |->
                             [shapes[i] EXCEPT !.id = ResetStepIds[i]]])
    /\ rs_slots \in ResetSlots
    /\ rs_events = <<>>

\* reset_events = reset_scoped_slots(flow, tracker)
ResetScopedSlots ==
    /\ rs_pc = "init"
    /\ rs_events' = reset_scoped_slots(rs_flow, rs_slots)
    /\ rs_pc' = "done"
    /\ UNCHANGED <<rs_flow, rs_slots>>
    /\ UNCHANGED <<varsStack, varsSelect, varsTurn>>


\* ------------------------------------------------------------------------
\* The specifications. Each one runs its own part of the state; the other
\* parts are switched off and never change.
\* ------------------------------------------------------------------------
OffStack ==
    /\ fs_pc = "off"
    /\ fs_frames = <<>>
    /\ fs_data = <<>>
    /\ fs_loaded = [raised |-> FALSE, frames |-> <<>>]
    /\ fs_user = StepAndFlow(NoStep, NoFlow)
    /\ fs_updated = NoUpdate

OffSelect ==
    /\ sel_pc = "off"
    /\ sel_step = NoStep
    /\ sel_context = EmptyContext
    /\ sel_slots = [s \in {"x"} |-> NoneValue]
    /\ sel_result = Selected(NoneId, <<>>)

OffReset ==
    /\ rs_pc = "off"
    /\ rs_flow = NoFlow
    /\ rs_slots = UnsetSlots
    /\ rs_events = <<>>

OffTurn ==
    /\ pc = "off"
    /\ turn = 0
    /\ tracker = [slots |-> UnsetSlots, events |-> <<>>, flow_stack |-> <<>>]
    /\ stack = <<>>
    /\ previous_stack = <<>>
    /\ work = [slots |-> UnsetSlots, events |-> <<>>]
    /\ number_of_initial_events = 0
    /\ number_of_steps_taken = 0
    /\ prediction = NoPrediction
    /\ exception = NoException
    /\ interpreted = 0
    /\ emitted = <<>>
    /\ last = NoLast

InitStackSpec == InitStack /\ OffSelect /\ OffReset /\ OffTurn
SpecStack == InitStackSpec /\ [][NextStack]_vars

InitSelectSpec == InitSelect /\ OffStack /\ OffReset /\ OffTurn
NextSelect == SelectNextStepId
SpecSelect == InitSelectSpec /\ [][NextSelect]_vars

InitResetSpec == InitReset /\ OffStack /\ OffSelect /\ OffTurn
NextReset == ResetScopedSlots
SpecReset == InitResetSpec /\ [][NextReset]_vars

Init == InitTurn /\ OffStack /\ OffSelect /\ OffReset
Next == NextTurn
Spec == Init /\ [][Next]_vars

\* One call of advance_flows is one uninterrupted, synchronous computation:
\* a step that can be taken is taken.
SpecFair == Spec /\ WF_vars(Next)

\* ------------------------------------------------------------------------
\* Claims about the turn loop (Spec, SpecFair).
\* ------------------------------------------------------------------------
CircuitBreakerException == "FlowCircuitBreakerTrippedException"

\* The step has a single outgoing link, static, that targets the step itself.
IsSelfLoopStep(step) ==
    /\ Len(step.links) = 1
    /\ step.links[1].type = "static"
    /\ step.links[1].target = step.id

\* The call's snapshot shows that the loop began with the top frame's cursor
\* on a self-loop step.
StartedOnSelfLoop ==
    /\ pc \in {"loop", "returned", "raised"}
    /\ previous_stack # <<>>
    /\ LET top == previous_stack[Len(previous_stack)]
       IN  /\ top.type = "flow"
           /\ IsSelfLoopStep(step_by_id(flow_by_id(Flows, top.flow_id), top.step_id))

\* C1: with the top frame on a step whose single static link targets itself,
\* the loop never stops before the counter exceeds 250: it interprets the
\* step once per iteration, 250 times, leaves the stack as it is, and raises
\* FlowCircuitBreakerTrippedException at counter value 251; the circuit
\* breaker never trips at another counter value.
C1_CircuitBreakerAt251 ==
    /\ exception = CircuitBreakerException =>
          /\ pc = "raised"
          /\ number_of_steps_taken = MAX_NUMBER_OF_STEPS + 1
    /\ pc = "loop" => number_of_steps_taken <= MAX_NUMBER_OF_STEPS
    /\ StartedOnSelfLoop =>
          /\ pc # "returned"
          /\ DialogueStack_as_dict(stack) = previous_stack
          /\ pc = "loop" =>
                /\ exception = NoException
                /\ interpreted = number_of_steps_taken
          /\ pc = "raised" =>
                /\ exception = CircuitBreakerException
                /\ interpreted = MAX_NUMBER_OF_STEPS
                /\ number_of_steps_taken = MAX_NUMBER_OF_STEPS + 1

\* C1 witness: the turn that began on the self-loop step was aborted by the
\* circuit breaker after 250 interpretations.
C1_Witness ==
    /\ StartedOnSelfLoop
    /\ pc = "raised"
    /\ exception = CircuitBreakerException
    /\ interpreted = 250
    /\ number_of_steps_taken = 251

\* The iterations of the running call that passed the counter check.
IterationsPassed ==
    IF exception = CircuitBreakerException THEN number_of_steps_taken - 1
    ELSE number_of_steps_taken

\* How a call that entered the loop may end.
EndsAsClaimed ==
    /\ (pc = "returned" /\ last.op # "none") =>
          \/ /\ last.op \in {"action", "generate_response"}
             /\ prediction.score = 1
             /\ prediction.action_name \notin {NoneId, ACTION_LISTEN_NAME}
          \/ /\ last.op = "listen"
             /\ prediction.action_name = ACTION_LISTEN_NAME
             /\ prediction.score = 1
             /\ ~TopIsFlowFrame
    /\ pc = "raised" => exception # NoException

EndedFrame == last.frame
RestAfterPop == FlowStack_pop(last.before)
PushedOnRest ==
    /\ Len(stack) = Len(RestAfterPop) + 1
    /\ SubSeq(stack, 1, Len(RestAfterPop)) = RestAfterPop

\* C7: a Link step to flow B run from the top frame of flow A puts a new
\* frame of B, of type link and at its start step, directly below A's frame
\* and leaves every other frame where it was; A's frame stays on top until
\* A's End step pops it, which is the step that uncovers B's frame.
C7_LinkBelowTop ==
    [][/\ last'.op = "link" =>
            LET a == FlowStack_top(last'.before)
                link_step == step_by_id(flow_by_id(Flows, a.flow_id), last'.frame.step_id)
            IN  /\ link_step.kind = "link"
                /\ stack' = FlowStack_pop(last'.before)
                            \o <<UserFlowStackFrame(link_step.link, START_STEP, "LINK"),
                                 [a EXCEPT !.step_id = link_step.id]>>
       /\ (last.op = "link" /\ stack' # stack) =>
            /\ last'.op = "end"
            /\ last'.before = stack
            /\ last'.frame = [FlowStack_top(stack) EXCEPT !.step_id = END_STEP]
            /\ SubSeq(stack', 1, Len(stack) - 1) = FlowStack_pop(stack)
      ]_vars

\* C7 witness: the End step of the linking flow has popped its frame and the
\* frame of the linked flow, of type link, is now the top.
C7_Witness ==
    /\ last.op = "end"
    /\ EndedFrame.flow_id = "handoff"
    /\ Len(stack) = 2
    /\ FlowStack_top(stack) = UserFlowStackFrame("transfer_money", START_STEP, "LINK")
    /\ stack = RestAfterPop

\* C8: an End step pops the ended frame and pushes the pattern frame "all
\* flows completed", with the ended flow's name, exactly when the stack is
\* empty after the pop and the ended frame is a user flow frame.
C8_CompletedIffEmptyAndUser ==
    last.op = "end" =>
        IF RestAfterPop = <<>> /\ IsUserFlowStackFrame(EndedFrame)
        THEN stack = <<CompletedPatternFlowStackFrame(
                            readable_name(flow_by_id(Flows, EndedFrame.flow_id)))>>
        ELSE /\ SubSeq(stack, 1, Len(RestAfterPop)) = RestAfterPop
             /\ \A i \in 1..Len(stack) :
                    stack[i].cls = "CompletedPatternFlowStackFrame" =>
                        i <= Len(RestAfterPop)

\* C8 witness: a single regular user flow has reached its End step and the
\* stack holds the completed pattern frame with the flow's name, alone.
C8_Witness ==
    /\ last.op = "end"
    /\ Len(last.before) = 1
    /\ EndedFrame = UserFlowStackFrame("transfer_money", END_STEP, "REGULAR")
    /\ stack = <<CompletedPatternFlowStackFrame("transfer money")>>

\* The condition of C9 on the ended frame and the frames left.
ResumesInterrupted ==
    LET previous == top_user_flow_frame(RestAfterPop)
    IN  /\ IsUserFlowStackFrame(EndedFrame)
        /\ EndedFrame.frame_type = "INTERRUPT"
        /\ previous.found
        /\ previous.frame.step_id \notin {END_STEP, CONTINUE_END_STEP}

\* C9: an End step pushes the pattern frame "continue interrupted flow",
\* with the name of the flow of the nearest user flow frame left on the
\* stack, exactly when the ended frame is a user flow frame of type interrupt
\* and that nearest frame exists with its cursor on neither END nor the
\* continue step of END.
C9_ContinueIffInterrupt ==
    last.op = "end" =>
        IF ResumesInterrupted
        THEN /\ PushedOnRest
             /\ FlowStack_top(stack) =
                    ContinueInterruptedPatternFlowStackFrame(
                        readable_name(flow_by_id(
                            Flows, top_user_flow_frame(RestAfterPop).frame.flow_id)))
        ELSE /\ SubSeq(stack, 1, Len(RestAfterPop)) = RestAfterPop
             /\ \A i \in 1..Len(stack) :
                    stack[i].cls = "ContinueInterruptedPatternFlowStackFrame" =>
                        i <= Len(RestAfterPop)

\* C9 witness: an interrupt frame has ended above a frame of another policy
\* and an interrupted user flow, and the continue pattern frame with that
\* flow's name is on top.
C9_Witness ==
    /\ last.op = "end"
    /\ EndedFrame.frame_type = "INTERRUPT"
    /\ Len(RestAfterPop) = 2
    /\ RestAfterPop[1] = UserFlowStackFrame("transfer_money", "a1", "REGULAR")
    /\ RestAfterPop[2] = NonFlowStackFrame
    /\ Len(stack) = 3
    /\ FlowStack_top(stack) = ContinueInterruptedPatternFlowStackFrame("transfer money")

\* ------------------------------------------------------------------------
\* Claims about select_next_step_id (SpecSelect).
\* ------------------------------------------------------------------------
SelLinks == sel_step.links
SingleStaticLink == Len(SelLinks) = 1 /\ SelLinks[1].type = "static"

\* Link i is a conditional link whose predicate is true of the document.
ConditionHolds(i) ==
    /\ SelLinks[i].type = "if"
    /\ SelLinks[i].condition.kind \in {"slot_eq", "context_eq"}
    /\ PredicateEvaluate(SelLinks[i].condition,
                         PredicateDocument(sel_context, sel_slots))
TrueLinks == {i \in 1..Len(SelLinks) : ConditionHolds(i)}
FirstTrueLink == CHOOSE i \in TrueLinks : \A j \in TrueLinks : i <= j

\* The conditional links with a condition text, up to link n, in order.
ConditionalLinksUpTo(n) ==
    SelectSeq([i \in 1..n |-> i],
              LAMBDA i : SelLinks[i].type = "if" /\ SelLinks[i].condition.kind # "empty")

\* A condition whose evaluation leaves is_condition_satisfied with an error.
RenderErrorBefore(n) ==
    \E i \in 1..n : SelLinks[i].type = "if" /\ SelLinks[i].condition.kind = "render_error"

\* C4: select_next_step_id returns the target of the first conditional link
\* whose predicate is true, having evaluated the conditional links in
\* declaration order up to that link and none after it.
C4_FirstMatch ==
    (sel_pc = "selected" /\ TrueLinks # {}) =>
        /\ ~sel_result.raised
        /\ sel_result.target = SelLinks[FirstTrueLink].target
        /\ sel_result.evals = ConditionalLinksUpTo(FirstTrueLink)

\* C4, for the steps none of whose conditions fails to render before the
\* first true one.
C4_FirstMatchWhenRendered ==
    (sel_pc = "selected" /\ TrueLinks # {} /\ ~RenderErrorBefore(FirstTrueLink)) =>
        /\ ~sel_result.raised
        /\ sel_result.target = SelLinks[FirstTrueLink].target
        /\ sel_result.evals = ConditionalLinksUpTo(FirstTrueLink)

ReturnedElseTarget ==
    /\ ~sel_result.raised
    /\ ElseLinkIndexes(SelLinks) # {}
    /\ sel_result.target = FirstElseLink(SelLinks).target

\* C5: select_next_step_id returns the else link's target if and only if the
\* step has an else link and no conditional link's predicate is true.
C5_ElseFallback ==
    sel_pc = "selected" =>
        (ReturnedElseTarget <=> (ElseLinkIndexes(SelLinks) # {} /\ TrueLinks = {}))

\* C5, for the steps none of whose conditions fails to render.
C5_ElseFallbackWhenRendered ==
    (sel_pc = "selected" /\ ~RenderErrorBefore(Len(SelLinks))) =>
        (ReturnedElseTarget <=> (ElseLinkIndexes(SelLinks) # {} /\ TrueLinks = {}))

\* C6: for a step with exactly one outgoing link that is static,
\* select_next_step_id returns the link's target and calls
\* is_condition_satisfied zero times.
C6_StaticShortcut ==
    (sel_pc = "selected" /\ SingleStaticLink) =>
        /\ ~sel_result.raised
        /\ sel_result.target = SelLinks[1].target
        /\ sel_result.evals = <<>>

\* C6 witness: a step with one static link was resolved while a slot named
\* context and a context were present.
C6_Witness ==
    /\ sel_pc = "selected"
    /\ SingleStaticLink
    /\ sel_result.target = "t1"
    /\ "context" \in DOMAIN sel_slots
    /\ sel_context.amount = 1

\* ------------------------------------------------------------------------
\* Claims about reset_scoped_slots (SpecReset).
\* ------------------------------------------------------------------------
RsSteps == rs_flow.steps
OptsOut(name) ==
    \E i \in 1..Len(RsSteps) :
        /\ RsSteps[i].kind = "collect"
        /\ RsSteps[i].collect = name
        /\ ~RsSteps[i].reset_after_flow_ends
WrittenBySetSlots(name) ==
    \E i \in 1..Len(RsSteps) :
        /\ RsSteps[i].kind = "set_slots"
        /\ \E k \in 1..Len(RsSteps[i].slots) : RsSteps[i].slots[k].key = name
ResetEventsFor(name) ==
    {n \in 1..Len(rs_events) : rs_events[n].key = name}
ResettingCollectSteps(name) ==
    {i \in 1..Len(RsSteps) :
        /\ RsSteps[i].kind = "collect"
        /\ RsSteps[i].collect = name
        /\ RsSteps[i].reset_after_flow_ends}
ResetSlotNames == {"x", "y", "z"}

\* C10 as stated: a flow with a collect step for x that opts out of the
\* reset and a set slots step that writes x gets no reset event for x,
\* whatever its other steps are.
C10_NoResetForOptOut ==
    rs_pc = "done" =>
        \A name \in ResetSlotNames :
            (OptsOut(name) /\ WrittenBySetSlots(name)) => ResetEventsFor(name) = {}

\* C10 as amended: in such a flow the set slots steps add no reset event for
\* x: the reset events for x are one per collect step for x that has
\* reset_after_flow_ends set, and none when the flow has no such step.
C10_OnlyCollectStepsReset ==
    rs_pc = "done" =>
        \A name \in ResetSlotNames :
            (OptsOut(name) /\ WrittenBySetSlots(name)) =>
                /\ Cardinality(ResetEventsFor(name))
                        = Cardinality(ResettingCollectSteps(name))
                /\ \A n \in ResetEventsFor(name) :
                        rs_events[n] = reset_slot_event(name, rs_slots)

\* C10 witness: a flow whose set slots step writes y and x before a collect
\* step for x opts out; the reset events name y and not x.
C10_Witness ==
    /\ rs_pc = "done"
    /\ Len(RsSteps) = 2
    /\ RsSteps[1].kind = "set_slots"
    /\ Len(RsSteps[1].slots) = 2
    /\ RsSteps[2].kind = "collect"
    /\ OptsOut("x")
    /\ rs_events = <<SlotSet("y", NoneValue)>>

\* ------------------------------------------------------------------------
\* Claims about FlowStack (SpecStack).
\* ------------------------------------------------------------------------
\* C3: for every FlowStack S, FlowStack.from_dict(S.as_dict()) does not raise
\* and equals S frame by frame, in the same order.
C3_RoundTrip ==
    fs_pc = "loaded" =>
        /\ ~fs_loaded.raised
        /\ Len(fs_loaded.frames) = Len(fs_frames)
        /\ \A i \in 1..Len(fs_frames) : fs_loaded.frames[i] = fs_frames[i]

\* C3 witness: a two-frame stack holding a remark frame with context None and
\* a frame with a non-empty context has been dumped and loaded back.
C3_Witness ==
    /\ fs_pc = "loaded"
    /\ Len(fs_frames) = 2
    /\ fs_frames[1].frame_type = "REMARK"
    /\ fs_frames[1].context = NoneContext
    /\ fs_frames[2].context = DictContext({<<"amount", 1>>})
    /\ fs_frames[1].flow_id # fs_frames[2].flow_id
    /\ fs_data[1].frame_type = "remark"
\* ------------------------------------------------------------------------
\* The end-to-end scenario: F = [Action(a1) -> SetSlots{x:1} -> End], flow
\* "transfer_money" of the catalog, alone on the stack.
\* ------------------------------------------------------------------------
ScenarioFrame(step_id) == UserFlowStackFrame("transfer_money", step_id, "REGULAR")
\* The first call: the snapshot is [{flow F, step START}].
FirstCallReturned ==
    /\ turn = 1
    /\ pc = "returned"
    /\ previous_stack = DialogueStack_as_dict(<<ScenarioFrame(START_STEP)>>)
\* The second call: the snapshot is the stack the first call persisted.
SecondCall ==
    /\ turn = 2
    /\ pc \in {"loop", "returned", "raised"}
    /\ previous_stack = DialogueStack_as_dict(<<ScenarioFrame("a1")>>)

\* C11 as stated: the first call returns a1 with confidence 1.0 and an empty
\* list of events.
C11_FirstTurnNoEvents ==
    FirstCallReturned =>
        /\ prediction.action_name = "a1"
        /\ prediction.score = 1
        /\ prediction.events = <<>>

\* C11 as amended: the first call pauses at the Action step and returns a1
\* with confidence 1.0; no step has produced an event, and the one event of
\* the prediction is the stack update that persists the cursor on the Action
\* step.
C11_FirstTurnPersistsCursor ==
    FirstCallReturned =>
        /\ prediction.action_name = "a1"
        /\ prediction.score = 1
        /\ interpreted = 1
        /\ last.op = "action"
        /\ emitted = <<>>
        /\ stack = <<ScenarioFrame("a1")>>
        /\ prediction.events = <<StackUpdated(DialogueStack_as_dict(stack))>>

\* C11 witness: the first call on [{F, START}] has returned a1.
C11_Witness ==
    /\ FirstCallReturned
    /\ prediction.action_name = "a1"
    /\ Len(prediction.events) = 1

\* C12 as stated: the second call produces [SlotSet(x, 1)], predicts
\* action_listen with confidence 1.0 and persists an empty stack.
C12_SecondTurnListens ==
    (SecondCall /\ pc = "returned") =>
        /\ emitted = <<SlotSet("x", 1)>>
        /\ prediction.action_name = ACTION_LISTEN_NAME
        /\ prediction.score = 1
        /\ stack = <<>>

\* The frame the End step of F leaves on the stack, with its cursor.
CompletedFrameAt(step_id) ==
    [CompletedPatternFlowStackFrame("transfer money") EXCEPT !.step_id = step_id]

\* C12 as amended: the second call runs SetSlots and End, never the Action
\* step of F again; the End step pops F's frame, pushes the completed pattern
\* frame for F and resets x, so the steps produce [SlotSet(x, 1),
\* SlotSet(x, initial value)]; the loop goes on into the pattern flow, whose
\* action is predicted with confidence 1.0, and the stack persisted holds the
\* pattern frame.
C12_SecondTurnCompletes ==
    SecondCall =>
        /\ pc # "raised"
        /\ last.op \in {"none", "set_slots", "end", "action"}
        /\ last.op = "action" => last.frame.flow_id = "pattern_completed"
        /\ last.op = "end" =>
              /\ emitted = <<SlotSet("x", 1), SlotSet("x", NoneValue)>>
              /\ stack = <<CompletedFrameAt(START_STEP)>>
        /\ pc = "returned" =>
              /\ interpreted = 3
              /\ emitted = <<SlotSet("x", 1), SlotSet("x", NoneValue)>>
              /\ prediction.action_name = "utter_completed"
              /\ prediction.score = 1
              /\ stack = <<CompletedFrameAt("say")>>
              /\ prediction.events =
                    Append(emitted, StackUpdated(DialogueStack_as_dict(stack)))

\* C12 witness: the second call has returned the pattern flow's action.
C12_Witness ==
    /\ SecondCall
    /\ pc = "returned"
    /\ Len(emitted) = 2
    /\ stack = <<CompletedFrameAt("say")>>
\* ------------------------------------------------------------------------
\* Claims about what advance_flows hands back (Spec).
\* ------------------------------------------------------------------------
StackEventsOf(events) == SelectSeq(events, LAMBDA e : e.type = "stack")
StackDiffers == DialogueStack_as_dict(stack) # previous_stack

\* C13: the prediction advance_flows returns holds one stack updated event,
\* as its last event and with the stack's final serialised form, if the
\* serialised form differs from the snapshot taken before the loop, and no
\* stack updated event if it is equal.
C13_StackEventIffChanged ==
    pc = "returned" =>
        IF StackDiffers
        THEN /\ Len(StackEventsOf(prediction.events)) = 1
             /\ prediction.events[Len(prediction.events)]
                    = StackUpdated(DialogueStack_as_dict(stack))
        ELSE StackEventsOf(prediction.events) = <<>>

\* C13 witness: the cursor went from the action step to the branch and back
\* within the call, and the prediction holds no stack updated event.
C13_Witness ==
    /\ pc = "returned"
    /\ interpreted = 2
    /\ FlowStack_top(stack).flow_id = "cycle"
    /\ ~StackDiffers
    /\ prediction.action_name = "a2"
    /\ prediction.events = <<>>

\* C14: a call that ends with an exception returns nothing: no prediction
\* and no event, and nothing the loop did has changed the caller's tracker,
\* whose stack slot and slot values are those the call began with.
C14_FatalLeavesTracker ==
    [][/\ pc = "loop" => tracker' = tracker
       /\ pc' = "raised" =>
            /\ exception' # NoException
            /\ prediction' = NoPrediction
            /\ tracker'.flow_stack = previous_stack'
      ]_vars

\* C14 witness: the circuit breaker tripped after steps of the call had
\* written a slot and popped a frame; the caller's tracker has neither.
C14_Witness ==
    /\ pc = "raised"
    /\ exception = CircuitBreakerException
    /\ emitted # <<>>
    /\ work.slots # tracker.slots
    /\ StackDiffers
    /\ tracker.flow_stack = previous_stack

\* C15: with an empty stack in the tracker, advance_flows returns the
\* prediction (None, 0.0) without events, runs no iteration and no step, and
\* leaves the stack empty.
C15_EmptyStackNothingToDo ==
    (tracker.flow_stack = <<>> /\ pc \notin {"off", "idle"}) =>
        /\ pc = "returned"
        /\ prediction.action_name = NoneId
        /\ prediction.score = 0
        /\ prediction.events = <<>>
        /\ number_of_steps_taken = 0
        /\ interpreted = 0
        /\ emitted = <<>>
        /\ stack = <<>>
        /\ last = NoLast

\* C15 witness: a tracker with an earlier event and no stack got the empty
\* prediction.
C15_Witness ==
    /\ pc = "returned"
    /\ tracker.flow_stack = <<>>
    /\ tracker.events # <<>>
    /\ prediction.action_name = NoneId

\* The call began on the start step of flow "route", which writes x = 2 and
\* then tests it.
StartedOnRoute ==
    /\ pc \in {"loop", "returned", "raised"}
    /\ previous_stack # <<>>
    /\ previous_stack[Len(previous_stack)].flow_id = "route"
    /\ previous_stack[Len(previous_stack)].step_id = START_STEP

\* C18: the events of each interpreted step are applied to the loop's copy
\* of the tracker before the next step is selected: the copy is the caller's
\* tracker with the events of the call's steps applied, a condition tested
\* after a SetSlots step of the same call sees the value written, and the
\* loop never changes the caller's tracker.
C18_WorkingCopy ==
    [][/\ pc = "loop" => tracker' = tracker
       /\ (pc' \in {"loop", "returned"} /\ previous_stack' # <<>>) =>
            work' = update_with_events(
                        [slots |-> tracker'.slots, events |-> tracker'.events],
                        emitted')
       /\ StartedOnRoute' =>
            /\ pc' # "raised"
            /\ pc' = "returned" => prediction'.action_name = "a1"
      ]_vars

\* C18 witness: x was unset in the caller's tracker, the call wrote 2 and
\* took the branch for x == 2.
C18_Witness ==
    /\ StartedOnRoute
    /\ pc = "returned"
    /\ tracker.slots["x"].value = NoneValue
    /\ work.slots["x"].value = 2
    /\ prediction.action_name = "a1"

\* C19: the events of the prediction a paused call returns are the events
\* the steps of the call produced, in the order of the steps, followed at
\* most by the stack updated event; no event from before the call is among
\* them.
C19_GatheredEvents ==
    (pc = "returned" /\ last.op # "none") =>
        /\ SubSeq(prediction.events, 1, Len(emitted)) = emitted
        /\ Len(prediction.events) \in {Len(emitted), Len(emitted) + 1}
        /\ Len(prediction.events) = Len(emitted) + 1 =>
              prediction.events[Len(prediction.events)].type = "stack"

\* C19 witness: a call on a tracker that held an event before paused after
\* two steps had produced an event each and the pausing step none.
C19_Witness ==
    /\ pc = "returned"
    /\ last.op = "action"
    /\ number_of_initial_events > 0
    /\ Len(emitted) = 2
    /\ emitted[1] # emitted[2]
    /\ Len(prediction.events) = 3
\* ------------------------------------------------------------------------
\* Claims about FlowStack.topmost_user_frame (SpecStack).
\* ------------------------------------------------------------------------
UserFrameTypes == {"REGULAR", "LINK", "INTERRUPT"}
OtherFrameTypes == {"REMARK", "CORRECTION", "DOCSEARCH", "INTENTLESS"}
UserFramePositions ==
    {i \in 1..Len(fs_frames) : fs_frames[i].frame_type \in UserFrameTypes}
TopmostUserPosition ==
    CHOOSE i \in UserFramePositions : \A j \in UserFramePositions : j <= i

\* C16: topmost_user_frame returns the step and the flow of the frame
\* nearest to the top whose type is regular, link or interrupt, whatever
\* frames of type remark, correction, docsearch or intentless lie above it,
\* and (None, None) when the stack has no frame of a user flow type.
C16_TopmostUserFrame ==
    fs_pc = "scanned" =>
        IF UserFramePositions = {}
        THEN fs_user = StepAndFlow(NoStep, NoFlow)
        ELSE LET frame == fs_frames[TopmostUserPosition]
             IN  /\ fs_user.flow = StackFlows[frame.flow_id]
                 /\ fs_user.step = step_by_id(StackFlows[frame.flow_id], frame.step_id)
                 /\ \A j \in (TopmostUserPosition + 1)..Len(fs_frames) :
                        fs_frames[j].frame_type \in OtherFrameTypes

\* C16 witness: a remark frame of one flow lies above a link frame of
\* another, and the scan returned the flow of the link frame.
C16_Witness ==
    /\ fs_pc = "scanned"
    /\ Len(fs_frames) = 2
    /\ fs_frames[1].frame_type = "LINK"
    /\ fs_frames[2].frame_type = "REMARK"
    /\ fs_frames[1].flow_id = "check_balance"
    /\ fs_frames[2].flow_id = "transfer_money"
    /\ fs_user.flow.id = "check_balance"
    /\ fs_user.step.id = START_STEP
\* ------------------------------------------------------------------------
\* Claims about a step none of whose links resolves (Spec, SpecFair).
\* ------------------------------------------------------------------------
\* The step the top frame's cursor is on, and its links.
TopStep == step_by_id(CurrentFlow, ActiveFrame.step_id)
TopLinkIsTrue(i) ==
    /\ TopStep.links[i].type = "if"
    /\ TopStep.links[i].condition.kind \in {"slot_eq", "context_eq"}
    /\ PredicateEvaluate(TopStep.links[i].condition,
                         PredicateDocument(current_context(stack),
                                           current_slot_values(work.slots)))
TopLinkFailsToRender(i) ==
    /\ TopStep.links[i].type = "if"
    /\ TopStep.links[i].condition.kind = "render_error"

\* The loop is about to run an iteration on a step that has links, no else
\* link, and no condition that is true.
TopStepUnroutable ==
    /\ pc = "loop"
    /\ ~CircuitBreakerTripped(number_of_steps_taken + 1)
    /\ TopIsFlowFrame
    /\ Len(TopStep.links) > 0
    /\ ~IsSelfLoopStep(TopStep)
    /\ ~(Len(TopStep.links) = 1 /\ TopStep.links[1].type = "static")
    /\ ElseLinkIndexes(TopStep.links) = {}
    /\ \A i \in 1..Len(TopStep.links) : ~TopLinkIsTrue(i)

\* What an iteration on such a step does: nothing but count.
IterationStalls ==
    /\ stack' = stack
    /\ work' = work
    /\ emitted' = emitted
    /\ pc' = "loop"
    /\ exception' = NoException

\* C17: an iteration on a step that has links none of which resolves leaves
\* the cursor and the stack as they are and emits no event, and the call
\* ends with the circuit breaker, never with a prediction or another error.
C17_UnroutableStalls ==
    [][TopStepUnroutable => IterationStalls]_vars

\* C17, for the steps whose conditions all render: the iterations stall.
C17_UnroutableStallsWhenRendered ==
    [][(/\ TopStepUnroutable
        /\ \A i \in 1..Len(TopStep.links) : ~TopLinkFailsToRender(i))
            => IterationStalls]_vars

\* C17, for the steps whose conditions all render: the call ends with the
\* circuit breaker.
C17_UnroutableEndsWithBreaker ==
    (/\ TopStepUnroutable
     /\ \A i \in 1..Len(TopStep.links) : ~TopLinkFailsToRender(i))
        ~> (pc = "raised" /\ exception = CircuitBreakerException)
\* ------------------------------------------------------------------------
\* Claims about the document of is_condition_satisfied (SpecSelect).
\* ------------------------------------------------------------------------
SelDocument == PredicateDocument(sel_context, sel_slots)
\* The first link tests the context: "context.amount == <value>", with the
\* value the context holds.
FirstLinkTestsContext ==
    /\ Len(SelLinks) >= 1
    /\ SelLinks[1].type = "if"
    /\ SelLinks[1].condition.kind = "context_eq"
    /\ SelLinks[1].condition.value = sel_context.amount

\* C20: the document a condition is evaluated against holds the context
\* under the key "context", also when a slot is named context, so that a
\* condition on the context is decided by the context.
C20_ContextLayerWins ==
    sel_pc = "selected" =>
        /\ SelDocument["context"] = ContextLayer(sel_context)
        /\ FirstLinkTestsContext =>
              /\ ~sel_result.raised
              /\ sel_result.target = SelLinks[1].target

\* C20, for slot values without a slot named context.
C20_ContextLayerWithoutClash ==
    (sel_pc = "selected" /\ "context" \notin DOMAIN sel_slots) =>
        /\ SelDocument["context"] = ContextLayer(sel_context)
        /\ FirstLinkTestsContext =>
              /\ ~sel_result.raised
              /\ sel_result.target = SelLinks[1].target
\* ------------------------------------------------------------------------
\* Claims about errors in conditions (SpecSelect).
\* ------------------------------------------------------------------------
\* The links whose condition raises an error: at rendering, or inside
\* Predicate.evaluate.
ErrorLinks ==
    {i \in 1..Len(SelLinks) :
        /\ SelLinks[i].type = "if"
        /\ SelLinks[i].condition.kind \in {"render_error", "eval_error"}}
\* The last link select_next_step_id has to look at when errors count as
\* false: the first link whose condition is true, or the last link.
LastLinkToEvaluate ==
    IF TrueLinks = {} THEN Len(SelLinks) ELSE FirstTrueLink

\* C21: no error of a condition leaves is_condition_satisfied: a condition
\* that raises counts as false, it is not selected, and the selection goes
\* on with the links after it.
C21_ErrorsCountAsFalse ==
    (sel_pc = "selected" /\ ~SingleStaticLink /\ ErrorLinks # {}) =>
        /\ ~sel_result.raised
        /\ \A i \in ErrorLinks : sel_result.target # SelLinks[i].target
        /\ sel_result.evals = ConditionalLinksUpTo(LastLinkToEvaluate)

\* C21, for the errors raised inside Predicate.evaluate.
C21_EvaluationErrorsCountAsFalse ==
    (/\ sel_pc = "selected"
     /\ ~SingleStaticLink
     /\ ErrorLinks # {}
     /\ ~RenderErrorBefore(Len(SelLinks))) =>
        /\ ~sel_result.raised
        /\ \A i \in ErrorLinks : sel_result.target # SelLinks[i].target
        /\ sel_result.evals = ConditionalLinksUpTo(LastLinkToEvaluate)
\* ------------------------------------------------------------------------
\* Claims about an Action step with an unknown action name (Spec).
\* ------------------------------------------------------------------------
\* The step the last iteration ran, and the action name it rendered.
RanStep == step_by_id(flow_by_id(Flows, last.frame.flow_id), last.frame.step_id)
RanActionName ==
    render_template_variables(
        RanStep.action,
        current_context(Append(FlowStack_pop(last.before), last.frame)))
\* The last iteration ran an Action step whose rendered name the domain
\* does not know.
UnknownActionRan ==
    /\ last.op = "action"
    /\ RanStep.action # NoneId
    /\ RanActionName \notin AvailableActions
PredictableNames ==
    AvailableActions \cup {ACTION_LISTEN_NAME, ACTION_SEND_TEXT_NAME, NoneId}

\* C22: an Action step whose rendered name is not an available action
\* leaves the loop running: it adds no event, changes nothing of the stack
\* but the cursor the loop had moved onto it, and makes no prediction; the
\* next step the call runs is the step's successor; and no call ever returns
\* a name that is not available.
C22_UnknownActionSkipped ==
    [][/\ (UnknownActionRan' /\ interpreted' = interpreted + 1) =>
            /\ pc' = "loop"
            /\ stack' = [stack EXCEPT ![Len(stack)].step_id = last'.frame.step_id]
            /\ emitted' = emitted
            /\ work' = work
            /\ prediction' = prediction
       /\ (/\ UnknownActionRan
           /\ interpreted' = interpreted + 1
           /\ Len(RanStep.links) = 1
           /\ RanStep.links[1].type = "static") =>
            last'.frame = [last.frame EXCEPT !.step_id = RanStep.links[1].target]
       /\ pc' = "returned" => prediction'.action_name \in PredictableNames
      ]_vars

\* C22 witness: the call skipped the unknown action of flow "skip" and
\* paused on the step after it.
C22_Witness ==
    /\ pc = "returned"
    /\ last.op = "generate_response"
    /\ last.frame.flow_id = "skip"
    /\ last.frame.step_id = "say"
    /\ interpreted = 2
    /\ emitted = <<>>
    /\ prediction.action_name = ACTION_SEND_TEXT_NAME
\* ------------------------------------------------------------------------
\* Claims about FlowStackFrame.with_updated_id (SpecStack).
\* ------------------------------------------------------------------------
\* The frame with_updated_id was called on.
UpdatedOriginal == fs_frames[fs_updated.of]

\* C23: with_updated_id(step_id) returns a copy of the frame: the result has
\* the given step id and the flow id, frame type and context of the frame
\* it was called on.
C23_CopyWithStepId ==
    fs_pc = "updated" =>
        /\ fs_updated.frame.step_id = fs_updated.step_id
        /\ fs_updated.frame.flow_id = UpdatedOriginal.flow_id
        /\ fs_updated.frame.frame_type = UpdatedOriginal.frame_type
        /\ fs_updated.frame.context = UpdatedOriginal.context

\* C23, what the method does: the result has the given step id and the
\* flow id and frame type of the original, its context is None whatever the
\* original's context was, and the call leaves the stack's frames alone.
C23_CopyWithoutContext ==
    [][fs_pc' = "updated" =>
            /\ fs_updated'.frame.step_id = fs_updated'.step_id
            /\ fs_updated'.frame.flow_id = fs_frames[fs_updated'.of].flow_id
            /\ fs_updated'.frame.frame_type = fs_frames[fs_updated'.of].frame_type
            /\ fs_updated'.frame.context = NoneContext
            /\ fs_frames' = fs_frames
      ]_vars
\* ------------------------------------------------------------------------
\* Claims about the stack size after an End step (Spec).
\* ------------------------------------------------------------------------
\* The frames an End step left above the frames that were below the ended one.
PushedByEnd == SubSeq(stack, Len(RestAfterPop) + 1, Len(stack))
EndPatternFrames ==
    {"ContinueInterruptedPatternFlowStackFrame", "CompletedPatternFlowStackFrame"}

\* C24: an End step is run on a stack that holds at least the ended frame;
\* it removes that frame, keeps the frames below it and pushes at most one
\* frame, a "continue interrupted flow" or an "all flows completed" pattern
\* frame and never both, so the stack afterwards has the size it had before
\* or one frame less.
C24_EndPushesAtMostOne ==
    last.op = "end" =>
        /\ Len(last.before) >= 1
        /\ Len(stack) \in {Len(last.before) - 1, Len(last.before)}
        /\ SubSeq(stack, 1, Len(RestAfterPop)) = RestAfterPop
        /\ \A i \in 1..Len(PushedByEnd) : PushedByEnd[i].cls \in EndPatternFrames
        /\ ~ \E i, j \in 1..Len(PushedByEnd) :
                /\ PushedByEnd[i].cls = "ContinueInterruptedPatternFlowStackFrame"
                /\ PushedByEnd[j].cls = "CompletedPatternFlowStackFrame"

\* C24 witness: an interrupting user flow ended above the one flow it had
\* interrupted; the End step pushed the "continue interrupted flow" frame
\* alone and the stack kept its size.
C24_Witness ==
    /\ last.op = "end"
    /\ IsUserFlowStackFrame(EndedFrame)
    /\ EndedFrame.frame_type = "INTERRUPT"
    /\ Len(RestAfterPop) = 1
    /\ IsUserFlowStackFrame(RestAfterPop[1])
    /\ Len(stack) = Len(last.before)
    /\ PushedByEnd = <<ContinueInterruptedPatternFlowStackFrame("transfer money")>>
====
